---- MODULE Spec2Model ----
(***************************************************************************)
(* A model of the knowledge-graph construction and graph-query engine of   *)
(* AdvancedRAGSystem (src/advanced_rag_system.py).                         *)
(*                                                                         *)
(* Python strings are TLA+ strings; substring tests, case conversion,      *)
(* replace and split are computed character by character.  Relevance       *)
(* scores are kept in tenths (1.0 is 10, 0.9 is 9, ...).  A dict value is  *)
(* a tagged tuple: Absent (no such key), None, Str(s) or Num(n).           *)
(***************************************************************************)
EXTENDS Integers, Sequences, FiniteSets, TLC

VARIABLES
    realtime_dir,     \* the files of data/realtime
    file_data,        \* self.file_data: the Entity Store snapshot last loaded
    knowledge_graph,  \* self.knowledge_graph: the networkx graph, mutated in place
    build_error,      \* the last build logged "Error building knowledge graph"
    raised,           \* the last operation let an exception escape to its caller
    last_refresh,     \* how the snapshot of the last refresh differed from the one
                      \* before it: "none" (no refresh yet), "unchanged", "removed"
                      \* (an entity was gone) or "changed"
    call,             \* the call whose outcome the caller holds: "none",
                      \* "_graph_query" or "process_query"
    entities,         \* the entities argument of that _graph_query call
    emitted,          \* _graph_query's final_results before sorting and truncation
    results,          \* the list _graph_query returned
    cache,            \* the retrieval cache: the keys holding a non-empty document list
    args,             \* the arguments of the call the caller holds the outcome of
    returned,         \* the value that call returned
    now,              \* the wall clock, in seconds since the process started
    cache_mtime,      \* the time each file of the retrieval cache was written
    redis,            \* the Redis keys set with an expiry: [key, expires]
    enable_redis,     \* self.enable_redis: the Redis client answered at start-up
    running,          \* the coroutine the event loop is running: "none" between
                      \* two awaits, "refresh" or "request"
    refresh_pc,       \* where the admin refresh task stands
    request_pc,       \* where the handler of the query endpoint stands
    observed          \* what the calls made for the request saw of the graph

\* the variables of the graph construction and the query pipeline
core_vars == <<realtime_dir, file_data, knowledge_graph, build_error, raised,
               last_refresh, call, entities, emitted, results, cache>>

\* the clock and the Redis side of the retrieval cache
clock_vars == <<now, cache_mtime, redis, enable_redis>>

\* the coroutines of the server
server_vars == <<running, refresh_pc, request_pc, observed>>

vars == <<core_vars, args, returned, clock_vars, server_vars>>

-----------------------------------------------------------------------------
(* Bounds of the model.                                                    *)

\* rows of stocks.csv when the bulk feed covers a short watch list
CsvRows == 2
\* rows of stocks.csv when the bulk feed covers a whole index
IndexRows == 19
\* per-stock JSON files present at once
MaxJsonStocks == 2
\* rows of the news CSV files present at once
MaxNews == 1
\* the longest text the named-entity recognizer accepts, in characters
NerMaxChars == 60

-----------------------------------------------------------------------------
(* Python values and strings.                                              *)

Absent == <<"absent">>
None == <<"none">>
Str(s) == <<"str", s>>
Num(n) == <<"num", n>>

IsStr(v) == v[1] = "str"
IsNum(v) == v[1] = "num"

Min(a, b) == IF a < b THEN a ELSE b

LowerTable ==
    "A" :> "a" @@ "B" :> "b" @@ "C" :> "c" @@ "D" :> "d" @@ "E" :> "e" @@
    "F" :> "f" @@ "G" :> "g" @@ "H" :> "h" @@ "I" :> "i" @@ "J" :> "j" @@
    "K" :> "k" @@ "L" :> "l" @@ "M" :> "m" @@ "N" :> "n" @@ "O" :> "o" @@
    "P" :> "p" @@ "Q" :> "q" @@ "R" :> "r" @@ "S" :> "s" @@ "T" :> "t" @@
    "U" :> "u" @@ "V" :> "v" @@ "W" :> "w" @@ "X" :> "x" @@ "Y" :> "y" @@
    "Z" :> "z"

UpperTable ==
    "a" :> "A" @@ "b" :> "B" @@ "c" :> "C" @@ "d" :> "D" @@ "e" :> "E" @@
    "f" :> "F" @@ "g" :> "G" @@ "h" :> "H" @@ "i" :> "I" @@ "j" :> "J" @@
    "k" :> "K" @@ "l" :> "L" @@ "m" :> "M" @@ "n" :> "N" @@ "o" :> "O" @@
    "p" :> "P" @@ "q" :> "Q" @@ "r" :> "R" @@ "s" :> "S" @@ "t" :> "T" @@
    "u" :> "U" @@ "v" :> "V" @@ "w" :> "W" @@ "x" :> "X" @@ "y" :> "Y" @@
    "z" :> "Z"

\* str.lower()
RECURSIVE Lower(_)
Lower(s) ==
    IF s = "" THEN ""
    ELSE LET c == Head(s)
         IN (IF c \in DOMAIN LowerTable THEN LowerTable[c] ELSE c) \o Lower(Tail(s))

\* str.upper()
RECURSIVE Upper(_)
Upper(s) ==
    IF s = "" THEN ""
    ELSE LET c == Head(s)
         IN (IF c \in DOMAIN UpperTable THEN UpperTable[c] ELSE c) \o Upper(Tail(s))

\* needle in hay
Contains(hay, needle) ==
    \E i \in 1..(Len(hay) - Len(needle) + 1) :
        SubSeq(hay, i, i + Len(needle) - 1) = needle

\* s.replace(old, ''), old not empty
RECURSIVE Remove(_, _)
Remove(s, old) ==
    IF Len(s) < Len(old) THEN s
    ELSE IF SubSeq(s, 1, Len(old)) = old
         THEN Remove(SubSeq(s, Len(old) + 1, Len(s)), old)
         ELSE Head(s) \o Remove(Tail(s), old)

\* set(s.split()): the whitespace-separated words of s
RECURSIVE SplitFrom(_, _)
SplitFrom(s, word) ==
    IF s = "" THEN (IF word = "" THEN {} ELSE {word})
    ELSE IF Head(s) = " "
         THEN (IF word = "" THEN {} ELSE {word}) \cup SplitFrom(Tail(s), "")
         ELSE SplitFrom(Tail(s), word \o Head(s))

Words(s) == SplitFrom(s, "")

\* x in list
InSeq(x, seq) == \E i \in 1..Len(seq) : seq[i] = x

\* list.append(x) guarded by "if x not in list"
AppendNew(seq, x) == IF InSeq(x, seq) THEN seq ELSE Append(seq, x)

-----------------------------------------------------------------------------
(* networkx.Graph: nodes and adjacency keep insertion order; an edge {u,v} *)
(* carries one relation label (a later add_edge overwrites it).            *)

NoAttrs ==
    [type |-> "None", level |-> Absent, name |-> Absent, sector |-> Absent,
     price |-> Absent, rsi |-> Absent, macd |-> Absent, sentiment |-> Absent,
     title |-> Absent, timestamp |-> Absent]

AttrNames == DOMAIN NoAttrs

\* dict.update: keys given by new override, other keys are kept
Upd(old, new) == IF new # Absent THEN new ELSE old

UpdateAttrs(old, new) ==
    [type |-> IF new.type # "None" THEN new.type ELSE old.type,
     level |-> Upd(old.level, new.level),
     name |-> Upd(old.name, new.name),
     sector |-> Upd(old.sector, new.sector),
     price |-> Upd(old.price, new.price),
     rsi |-> Upd(old.rsi, new.rsi),
     macd |-> Upd(old.macd, new.macd),
     sentiment |-> Upd(old.sentiment, new.sentiment),
     title |-> Upd(old.title, new.title),
     timestamp |-> Upd(old.timestamp, new.timestamp)]

\* nodes: the node keys in insertion order; attr and adj: functions of the node key
EmptyGraph ==
    [nodes |-> <<>>, attr |-> <<>>, adj |-> <<>>]

has_node(g, n) == n \in DOMAIN g.attr

NodeAttrs(g, n) == g.attr[n]

NodeType(g, n) == NodeAttrs(g, n).type

\* G.adj[n]: the neighbours of n in insertion order, each with the edge's relation
Adj(g, n) == g.adj[n]

RECURSIVE Targets(_)
Targets(row) ==
    IF row = <<>> THEN <<>> ELSE <<Head(row).to>> \o Targets(Tail(row))

neighbors(g, n) == Targets(Adj(g, n))

has_edge(g, u, v) ==
    has_node(g, u) /\ \E i \in 1..Len(Adj(g, u)) : Adj(g, u)[i].to = v

Relation(g, u, v) ==
    Adj(g, u)[CHOOSE i \in 1..Len(Adj(g, u)) : Adj(g, u)[i].to = v].relation

add_node(g, n, attrs) ==
    IF has_node(g, n)
    THEN [g EXCEPT !.attr[n] = UpdateAttrs(@, attrs)]
    ELSE [nodes |-> Append(g.nodes, n),
          attr |-> g.attr @@ (n :> UpdateAttrs(NoAttrs, attrs)),
          adj |-> g.adj @@ (n :> <<>>)]

\* adj[v] = relation: a neighbour already there keeps its place
SetAdj(row, v, relation) ==
    IF \E i \in 1..Len(row) : row[i].to = v
    THEN [row EXCEPT ![CHOOSE i \in 1..Len(row) : row[i].to = v].relation = relation]
    ELSE Append(row, [to |-> v, relation |-> relation])

\* a node an edge names is created when it is missing
EnsureNode(g, n) == IF has_node(g, n) THEN g ELSE add_node(g, n, NoAttrs)

\* adj[u][v] and adj[v][u] hold the edge's data
SetEdge(g, u, v, relation) ==
    [g EXCEPT !.adj[u] = SetAdj(@, v, relation),
              !.adj[v] = SetAdj(@, u, relation)]

add_edge(g, u, v, relation) ==
    SetEdge(EnsureNode(EnsureNode(g, u), v), u, v, relation)

\* the edges as a set of [ends, relation]
Edges(g) ==
    UNION { { [ends |-> {n, g.adj[n][k].to},
               relation |-> g.adj[n][k].relation] : k \in 1..Len(g.adj[n]) } :
            n \in DOMAIN g.attr }

-----------------------------------------------------------------------------
(* The Entity Store feed (the files of data/realtime) and _load_file_data.  *)

Dict(h) == <<"dict", h>>

\* a row of stocks.csv: row.to_dict() is always a dict
CsvTickers ==
    <<"C01.NS", "C02.NS", "C03.NS", "C04.NS", "C05.NS", "C06.NS", "C07.NS",
      "C08.NS", "C09.NS", "C10.NS", "C11.NS", "C12.NS", "C13.NS", "C14.NS",
      "C15.NS", "C16.NS", "C17.NS", "C18.NS", "C19.NS", "C20.NS", "C21.NS",
      "C22.NS">>

CsvRow(i) ==
    [ticker |-> CsvTickers[i],
     data |-> [is_dict |-> TRUE, name |-> Absent, sector |-> Str("Energy"),
               current_price |-> Num(100)]]

\* the stock_<ticker>.json files the feed may hold, in directory order
JsonStockPool ==
    << [ticker |-> "GAIL.NS",
        data |-> [is_dict |-> TRUE, name |-> Absent, sector |-> Str("ONGC.NS"),
                  current_price |-> Num(180)]],
       [ticker |-> "ONGC.NS",
        data |-> [is_dict |-> TRUE, name |-> Absent, sector |-> Str("Energy"),
                  current_price |-> Num(150)]],
       [ticker |-> "RELIANCE.NS",
        data |-> [is_dict |-> TRUE, name |-> Str("Reliance Industries"),
                  sector |-> Str("Energy"), current_price |-> Num(2500)]],
       [ticker |-> "TCS.NS",
        data |-> [is_dict |-> TRUE, name |-> Str("Tata Consultancy"),
                  sector |-> Absent, current_price |-> Absent]],
       [ticker |-> "NIFTYBEES.NS",
        data |-> [is_dict |-> TRUE, name |-> Absent, sector |-> Str("NIFTY50"),
                  current_price |-> Num(250)]],
       \* a file holding a JSON list: json.load succeeds, the value is no dict
       [ticker |-> "BAD.NS",
        data |-> [is_dict |-> FALSE, name |-> Absent, sector |-> Absent,
                  current_price |-> Absent]] >>

EmptyDict == [advances |-> Absent, market_sentiment |-> Absent, timestamp |-> Absent]

BreadthFile ==
    [advances |-> Num(30), market_sentiment |-> Str("positive"),
     timestamp |-> Str("2025-01-01T10:00:00")]

\* technical_indicators.json: none, well-formed, or "macd": null
IndicatorFiles ==
    { <<>>,
      << [ticker |-> "RELIANCE.NS",
          indicators |-> [rsi |-> Num(25), macd |-> Dict(Num(1))]] >>,
      << [ticker |-> "RELIANCE.NS",
          indicators |-> [rsi |-> Num(25), macd |-> None]] >> }

\* rows of the news_*.csv files: title and description
NewsRowPool ==
    << [title |-> "Reliance profit up", description |-> "",
        sentiment |-> Str("positive")],
       [title |-> "ONGC Energy rally", description |-> "",
        sentiment |-> Absent] >>

\* lines 275-287: content = title + ". " + description
LoadNewsRow(row) ==
    [title |-> row.title,
     content |-> row.title \o ". " \o row.description,
     sentiment |-> row.sentiment]

\* the elements of pool at the indices in S, in pool order
Pick(pool, S) == SelectSeq(pool, LAMBDA r : \E i \in S : pool[i] = r)

\* data/realtime after makedirs on a fresh install: no file
EmptyDir ==
    [csv_rows |-> 0, json_stocks |-> {}, breadth |-> EmptyDict,
     indicators |-> <<>>, news_rows |-> {}]

RECURSIVE ReadCsv(_)
ReadCsv(n) == IF n = 0 THEN <<>> ELSE Append(ReadCsv(n - 1), CsvRow(n))

RECURSIVE LoadNewsRows(_)
LoadNewsRows(rows) ==
    IF rows = <<>> THEN <<>>
    ELSE <<LoadNewsRow(Head(rows))>> \o LoadNewsRows(Tail(rows))

\* _load_file_data: stocks.csv rows first, then the stock_*.json files
LoadFileData(dir) ==
    [stocks |-> ReadCsv(dir.csv_rows) \o Pick(JsonStockPool, dir.json_stocks),
     market_breadth |-> dir.breadth,
     technical_indicators |-> dir.indicators,
     news_data |-> LoadNewsRows(Pick(NewsRowPool, dir.news_rows))]

\* what one ingestion cycle may leave in data/realtime: one file written or
\* removed, or nothing new
Ingest(dir) ==
    {dir}
    \cup { [dir EXCEPT !.csv_rows = c] : c \in {0, CsvRows} }
    \cup { [dir EXCEPT !.json_stocks = J] :
            J \in { (dir.json_stocks \cup {i}) \ (dir.json_stocks \cap {i}) :
                    i \in 1..Len(JsonStockPool) } \cap
                  { K \in SUBSET (1..Len(JsonStockPool)) :
                    Cardinality(K) <= MaxJsonStocks } }
    \cup { [dir EXCEPT !.breadth = b] : b \in {EmptyDict, BreadthFile} }
    \cup { [dir EXCEPT !.indicators = t] : t \in IndicatorFiles }
    \cup { [dir EXCEPT !.news_rows = N] :
            N \in { (dir.news_rows \cup {i}) \ (dir.news_rows \cap {i}) :
                    i \in 1..Len(NewsRowPool) } \cap
                  { K \in SUBSET (1..Len(NewsRowPool)) :
                    Cardinality(K) <= MaxNews } }

\* bool(d) of a dict
Truthy(d) == \E k \in DOMAIN d : d[k] # Absent

\* d.get(key, default)
Get(d, key, default) == IF d[key] = Absent THEN default ELSE d[key]

-----------------------------------------------------------------------------
(* extract_entities.                                                       *)

\* "if Test(x) and x not in acc: acc.append(x)" for x in seq (seq holds dict
\* keys or graph nodes, so no element twice)
ExtendNew(acc, seq, Test(_)) ==
    acc \o SelectSeq(seq, LAMBDA x : Test(x) /\ ~InSeq(x, acc))

\* node.replace('.NS', '').replace('.BO', '')
TickerClean(node) == Remove(Remove(node, ".NS"), ".BO")

\* node_data.get('name') or '', lowered
StockNameLower(name) == IF IsStr(name) THEN Lower(name[2]) ELSE ""

common_words ==
    {"the", "bank", "limited", "ltd", "corporation", "corp", "industries", "group"}

\* lines 739-764: the ticker, two significant name words, or one long query
\* word inside the name
DirectMatch(g, node, query_lower, query_upper) ==
    LET stock_name == StockNameLower(NodeAttrs(g, node).name)
        query_significant == Words(query_lower) \ common_words
    IN \/ Contains(query_upper, Upper(TickerClean(node)))
       \/ Contains(query_upper, node)
       \/ /\ stock_name # ""
          /\ \/ Cardinality((Words(stock_name) \ common_words)
                            \cap query_significant) >= 2
             \/ \E word \in query_significant :
                    Len(word) > 3 /\ Contains(stock_name, word)

\* the organization names the recognizer knows
OrgGazetteer == <<"Rel", "Tata Consultancy">>

\* self.ner_model(query): the ORG spans, or an exception on an over-long text
NerModel(query) ==
    [ok |-> Len(query) <= NerMaxChars,
     org_names |-> SelectSeq(OrgGazetteer, LAMBDA o : Contains(query, o))]

\* lines 784-787
NerMatch(g, node, name) ==
    LET name_lower == Lower(name)
        stock_name == StockNameLower(NodeAttrs(g, node).name)
        ticker_clean == Lower(TickerClean(node))
    IN \/ name_lower = ticker_clean
       \/ Contains(stock_name, name_lower)
       \/ Contains(name_lower, stock_name)
       \/ (Len(name_lower) > 3 /\ Contains(ticker_clean, name_lower))

StockNodes(g) == SelectSeq(g.nodes, LAMBDA n : NodeType(g, n) = "stock")

SectorNodes(g) == SelectSeq(g.nodes, LAMBDA n : NodeType(g, n) = "sector")

RECURSIVE NerCompanies(_, _, _)
NerCompanies(acc, org_names, g) ==
    IF org_names = <<>> THEN acc
    ELSE NerCompanies(
            ExtendNew(acc, StockNodes(g),
                       LAMBDA n : NerMatch(g, n, Head(org_names))),
            Tail(org_names), g)

\* lines 796-809: two words shared with the name of a record of file_data
FileMatch(fd, ticker, query_lower) ==
    LET rec == CHOOSE r \in { fd.stocks[i] : i \in 1..Len(fd.stocks) } :
                   r.ticker = ticker
        stock_name == StockNameLower(rec.data.name)
    IN /\ stock_name # ""
       /\ Cardinality(Words(query_lower) \cap Words(stock_name)) >= 2

RECURSIVE Tickers(_)
Tickers(stocks) ==
    IF stocks = <<>> THEN <<>> ELSE <<Head(stocks).ticker>> \o Tickers(Tail(stocks))

metrics ==
    <<"pe", "pb", "roe", "debt", "margin", "growth", "dividend", "rsi", "macd",
      "price">>

\* lines 733-764: tier 1, the direct match over the stock nodes
DirectCompanies(g, query_lower, query_upper) ==
    IF Len(g.nodes) > 0
    THEN ExtendNew(<<>>, StockNodes(g),
                   LAMBDA n : DirectMatch(g, n, query_lower, query_upper))
    ELSE <<>>

\* a faulty tier 2 that runs whatever tier 1 found and adds to it
NerMerged(companies, ner, g) ==
    IF ~ner.ok \/ Len(g.nodes) = 0 THEN companies
    ELSE NerCompanies(companies, ner.org_names, g)

\* lines 767-792: tier 2, entered when tier 1 found nothing; an exception of
\* the recognizer is caught at line 791
NerFallback(companies, ner, g) ==
    IF companies # <<>> \/ ~ner.ok \/ Len(g.nodes) = 0 THEN companies
    ELSE NerCompanies(<<>>, ner.org_names, g)

\* lines 795-809: tier 3, entered when tier 2 found nothing; stock_data.get on
\* a record that is no dict raises AttributeError
FileFallback(companies, fd, query_lower) ==
    IF companies # <<>> THEN [raised |-> FALSE, companies |-> companies]
    ELSE IF \E i \in 1..Len(fd.stocks) : ~fd.stocks[i].data.is_dict
    THEN [raised |-> TRUE, companies |-> <<>>]
    ELSE [raised |-> FALSE,
          companies |-> ExtendNew(<<>>, Tickers(fd.stocks),
                                  LAMBDA k : FileMatch(fd, k, query_lower))]

\* lines 812-821
SectorEntities(g, query_lower) ==
    IF Len(g.nodes) > 0
    THEN ExtendNew(<<>>, SectorNodes(g),
                   LAMBDA sector : sector # "" /\ Contains(query_lower, Lower(sector)))
    ELSE <<>>

\* lines 812-829: what the call returns once the companies are settled
Extracted(found, g, query_lower) ==
    [raised |-> found.raised,
     companies |-> found.companies,
     sectors |-> SectorEntities(g, query_lower),
     metrics |-> SelectSeq(metrics, LAMBDA m : Contains(query_lower, m))]

\* the three tiers on the lowered and the uppered query
ExtractFrom(query, query_lower, query_upper, g, fd) ==
    Extracted(
        FileFallback(
            NerFallback(DirectCompanies(g, query_lower, query_upper),
                        NerModel(query), g),
            fd, query_lower),
        g, query_lower)

\* lines 720-830
extract_entities(query, g, fd) ==
    ExtractFrom(query, Lower(query), Upper(query), g, fd)

-----------------------------------------------------------------------------
(* _build_knowledge_graph.  A build state is the graph so far and whether   *)
(* an exception has left the try block; once raised, no later step runs.   *)

\* line 371: f"news_{hash(title)}"; the hash of a str is fixed for the life of
\* the process and the titles of the feed have distinct hashes
NewsId(title) == "news_" \o title

\* lines 332-333
EnsureSector(g, sector) ==
    IF has_node(g, sector) THEN g
    ELSE add_node(g, sector, [NoAttrs EXCEPT !.type = "sector"])

\* lines 337-338
ComponentOf(g, sector) ==
    IF has_edge(g, sector, "NIFTY50") THEN g
    ELSE add_edge(g, sector, "NIFTY50", "component_of")

\* lines 330-338: g holds the stock node
LinkSector(g, ticker, sector) ==
    IF sector = "Unknown" THEN g
    ELSE ComponentOf(add_edge(EnsureSector(g, sector), ticker, sector, "belongs_to"),
                     sector)

\* lines 309-327
AddStock(g, rec) ==
    add_node(g, rec.ticker,
             [NoAttrs EXCEPT
                !.type = "stock",
                !.name = Get(rec.data, "name", Str(rec.ticker)),
                !.sector = Get(rec.data, "sector", Str("Unknown")),
                !.price = Get(rec.data, "current_price", Num(0))])

\* lines 307-338: one stock record
StockStep(st, rec) ==
    IF st.raised THEN st
    ELSE IF ~rec.data.is_dict THEN [st EXCEPT !.raised = TRUE]
    ELSE [st EXCEPT !.g = LinkSector(AddStock(st.g, rec), rec.ticker,
                                     Get(rec.data, "sector", Str("Unknown"))[2])]

RECURSIVE StockSteps(_, _)
StockSteps(st, stocks) ==
    IF st.raised \/ stocks = <<>> THEN st
    ELSE StockSteps(StockStep(st, Head(stocks)), Tail(stocks))

\* lines 341-354
BreadthStep(st, breadth) ==
    IF st.raised \/ ~Truthy(breadth) THEN st
    ELSE [st EXCEPT !.g =
            add_edge(
                add_edge(
                    add_node(st.g, "market_breadth",
                        [NoAttrs EXCEPT
                            !.type = "market_indicator",
                            !.sentiment = Get(breadth, "market_sentiment",
                                              Str("neutral")),
                            !.timestamp = Get(breadth, "timestamp", Str(""))]),
                    "market_breadth", "NIFTY50", "indicates"),
                "market_breadth", "SENSEX", "indicates")]

\* lines 357-366: indicators.get('macd', {}).get('histogram') raises when the
\* macd value is not a dict
IndicatorStep(st, entry) ==
    IF st.raised \/ ~has_node(st.g, entry.ticker) THEN st
    ELSE
      LET macd == entry.indicators.macd
      IN IF macd # Absent /\ macd[1] # "dict" THEN [st EXCEPT !.raised = TRUE]
         ELSE [st EXCEPT !.g = add_node(st.g, entry.ticker,
                 [NoAttrs EXCEPT
                    !.rsi = Get(entry.indicators, "rsi", None),
                    !.macd = IF macd = Absent \/ macd[2] = Absent
                             THEN None ELSE macd[2]])]

RECURSIVE IndicatorSteps(_, _)
IndicatorSteps(st, entries) ==
    IF st.raised \/ entries = <<>> THEN st
    ELSE IndicatorSteps(IndicatorStep(st, Head(entries)), Tail(entries))

\* a faulty linking that ties the news node to every other node of the graph
RECURSIVE LinkNodes(_, _, _)
LinkNodes(g, news_id, nodes) ==
    IF nodes = <<>> THEN g
    ELSE IF Head(nodes) = news_id THEN LinkNodes(g, news_id, Tail(nodes))
    ELSE LinkNodes(add_edge(g, news_id, Head(nodes), "mentions"), news_id,
                   Tail(nodes))

LinkEveryNode(g, news_id, to_link) == LinkNodes(g, news_id, g.nodes)

\* lines 386-388: an edge to every entity that is a node of the graph
RECURSIVE LinkEntities(_, _, _)
LinkEntities(g, news_id, to_link) ==
    IF to_link = <<>> THEN g
    ELSE IF has_node(g, Head(to_link))
    THEN LinkEntities(add_edge(g, news_id, Head(to_link), "mentions"),
                      news_id, Tail(to_link))
    ELSE LinkEntities(g, news_id, Tail(to_link))

\* lines 372-377
AddNews(g, item) ==
    add_node(g, NewsId(item.title),
             [NoAttrs EXCEPT
                !.type = "news",
                !.title = Str(item.title),
                !.sentiment = Get(item, "sentiment", Str("neutral"))])

\* lines 380-388: g holds the news node; extract_entities is not guarded here
LinkNews(g, news_id, extracted) ==
    IF extracted.raised THEN [g |-> g, raised |-> TRUE]
    ELSE [g |-> LinkEntities(g, news_id, extracted.companies \o extracted.sectors),
          raised |-> FALSE]

\* the news node is in the graph when the entities of its text are looked up
NewsEntities(g, item, fd) ==
    LinkNews(g, NewsId(item.title),
             extract_entities(item.title \o " " \o item.content, g, fd))

\* lines 369-389: one news item
NewsStep(st, item, fd) ==
    IF st.raised THEN st ELSE NewsEntities(AddNews(st.g, item), item, fd)

RECURSIVE NewsSteps(_, _, _)
NewsSteps(st, items, fd) ==
    IF st.raised \/ items = <<>> THEN st
    ELSE NewsSteps(NewsStep(st, Head(items), fd), Tail(items), fd)

\* lines 403-405: the pairs (stocks[i], stocks[j]), j onwards, of
\* combinations(stocks_in_sector, 2)
RECURSIVE PeerPairsOf(_, _, _, _)
PeerPairsOf(g, stocks, i, j) ==
    IF j > Len(stocks) THEN g
    ELSE IF has_edge(g, stocks[i], stocks[j])
    THEN PeerPairsOf(g, stocks, i, j + 1)
    ELSE PeerPairsOf(add_edge(g, stocks[i], stocks[j], "peer_of_sector"),
                     stocks, i, j + 1)

\* the pairs whose first element is stocks[i] or a later one; every element
\* of stocks is a node of g
RECURSIVE PeerPairs(_, _, _)
PeerPairs(g, stocks, i) ==
    IF i >= Len(stocks) \/ ~has_node(g, stocks[i]) THEN g
    ELSE PeerPairs(PeerPairsOf(g, stocks, i, i + 1), stocks, i + 1)

\* lines 394-405: for sector in sectors
RECURSIVE PeerSectors(_, _)
PeerSectors(g, sectors) ==
    IF sectors = <<>> THEN g
    ELSE PeerSectors(
            PeerPairs(g, SelectSeq(neighbors(g, Head(sectors)),
                                   LAMBDA n : NodeType(g, n) = "stock"), 1),
            Tail(sectors))

\* lines 390-405
PeerStep(st) ==
    IF st.raised THEN st
    ELSE [st EXCEPT !.g = PeerSectors(st.g, SectorNodes(st.g))]

\* a faulty clear() that keeps every node and drops only the edges
ClearEdgesOnly(g) ==
    [nodes |-> g.nodes, attr |-> g.attr,
     adj |-> [n \in DOMAIN g.attr |-> <<>>]]

\* a faulty clear() that does nothing
NoClear(g) == g

\* line 300: self.knowledge_graph.clear()
Clear(g) == EmptyGraph

\* a faulty except clause that logs and re-raises
Reraise(st) == [g |-> st.g, error |-> st.raised, raised |-> st.raised]

\* lines 410-411: the except clause logs the error; the graph built so far stays
ExceptClause(st) == [g |-> st.g, error |-> st.raised, raised |-> FALSE]

\* lines 303-304: the market index nodes
IndexStep(g) ==
    add_node(add_node(g, "NIFTY50",
                      [NoAttrs EXCEPT !.type = "index",
                                      !.level = Str("broad_market")]),
             "SENSEX",
             [NoAttrs EXCEPT !.type = "index", !.level = Str("broad_market")])

\* lines 298-411
BuildKnowledgeGraph(g, fd) ==
    LET g0 == IndexStep(Clear(g))
        s1 == StockSteps([g |-> g0, raised |-> FALSE], fd.stocks)
        s2 == BreadthStep(s1, fd.market_breadth)
        s3 == IndicatorSteps(s2, fd.technical_indicators)
        s4 == NewsSteps(s3, fd.news_data, fd)
    IN ExceptClause(PeerStep(s4))

-----------------------------------------------------------------------------
(* _graph_query.  A traversal state is the results list and seen_nodes.     *)

\* line 1450: final_results[:20]
MaxResults == 20
\* relevance scores in tenths: lines 1360, 1377, 1398, 1409, 1424, 1436
MarketContextScore == 7
StartNodeScore == 10
RelatedNewsScore == 8
SectorInfoScore == 9
PeerStockScore == 6
SectorStockScore == 9

\* results.append({...}); seen_nodes.add(node)
Emit(q, node, type, relevance_score) ==
    [results |-> Append(q.results,
                        [node |-> node, type |-> type,
                         relevance_score |-> relevance_score]),
     seen_nodes |-> q.seen_nodes \cup {node}]

\* lines 1347-1351: the sector nodes whose lowered name holds the lowered entity
MatchingSectors(g, sector_name) ==
    SelectSeq(g.nodes,
              LAMBDA node : /\ NodeType(g, node) = "sector"
                            /\ node # ""
                            /\ Contains(Lower(node), Lower(sector_name)))

RECURSIVE SectorStartNodes(_, _)
SectorStartNodes(g, sectors) ==
    IF sectors = <<>> THEN <<>>
    ELSE (IF Head(sectors) = "" THEN <<>> ELSE MatchingSectors(g, Head(sectors)))
         \o SectorStartNodes(g, Tail(sectors))

\* lines 1338-1352
StartNodes(g, ents) ==
    SelectSeq(ents.companies, LAMBDA company : has_node(g, company))
    \o SectorStartNodes(g, ents.sectors)

\* lines 1355-1362
MarketContext(g, q) ==
    IF has_node(g, "market_breadth") /\ "market_breadth" \notin q.seen_nodes
    THEN Emit(q, "market_breadth", "market_context", MarketContextScore)
    ELSE q

\* a faulty 2-hop step that emits no sibling stock
NoPeerStocks(g, q, node, sector_neighbors) == q

\* lines 1414-1426: the stocks of the sector other than the seed
RECURSIVE PeerStocks(_, _, _, _)
PeerStocks(g, q, node, sector_neighbors) ==
    IF sector_neighbors = <<>> THEN q
    ELSE LET sector_neighbor == Head(sector_neighbors)
         IN IF sector_neighbor \in q.seen_nodes \/ sector_neighbor = node
            THEN PeerStocks(g, q, node, Tail(sector_neighbors))
            ELSE IF NodeType(g, sector_neighbor) = "stock"
            THEN PeerStocks(g, Emit(q, sector_neighbor, "peer_stock", PeerStockScore),
                            node, Tail(sector_neighbors))
            ELSE PeerStocks(g, q, node, Tail(sector_neighbors))

\* lines 1388-1438: one neighbour that is not in seen_nodes
VisitNeighbor(g, q, node, neighbor) ==
    LET node_type == NodeType(g, node)
        neighbor_type == NodeType(g, neighbor)
    IN IF node_type = "stock"
       THEN IF neighbor_type = "news"
            THEN Emit(q, neighbor, "related_news", RelatedNewsScore)
            ELSE IF neighbor_type = "sector"
            THEN PeerStocks(g, Emit(q, neighbor, "sector_info", SectorInfoScore),
                            node, neighbors(g, neighbor))
            ELSE q
       ELSE IF node_type = "sector" /\ neighbor_type = "stock"
       THEN Emit(q, neighbor, "sector_stock", SectorStockScore)
       ELSE q

\* lines 1384-1386: for neighbor in neighbors(node)
RECURSIVE VisitNeighbors(_, _, _, _)
VisitNeighbors(g, q, node, nbrs) ==
    IF nbrs = <<>> THEN q
    ELSE IF Head(nbrs) \in q.seen_nodes
    THEN VisitNeighbors(g, q, node, Tail(nbrs))
    ELSE VisitNeighbors(g, VisitNeighbor(g, q, node, Head(nbrs)), node, Tail(nbrs))

\* a faulty loop that expands a seed although it was seen before
RECURSIVE TraverseEverySeed(_, _, _)
TraverseEverySeed(g, q, start_nodes) ==
    IF start_nodes = <<>> THEN q
    ELSE LET node == Head(start_nodes)
         IN TraverseEverySeed(g,
                VisitNeighbors(g,
                    Emit(q, node, NodeType(g, node) \o "_info", StartNodeScore),
                    node, neighbors(g, node)),
                Tail(start_nodes))

\* lines 1365-1439: for node in start_nodes
RECURSIVE Traverse(_, _, _)
Traverse(g, q, start_nodes) ==
    IF start_nodes = <<>> THEN q
    ELSE LET node == Head(start_nodes)
         IN IF node \in q.seen_nodes
            THEN Traverse(g, q, Tail(start_nodes))
            ELSE Traverse(g,
                    VisitNeighbors(g,
                        Emit(q, node, NodeType(g, node) \o "_info", StartNodeScore),
                        node, neighbors(g, node)),
                    Tail(start_nodes))

\* lines 1442-1447: the first result of each node
RECURSIVE Deduplicate(_, _)
Deduplicate(final_results, res) ==
    IF res = <<>> THEN final_results
    ELSE IF \E i \in 1..Len(final_results) : final_results[i].node = Head(res).node
    THEN Deduplicate(final_results, Tail(res))
    ELSE Deduplicate(Append(final_results, Head(res)), Tail(res))

\* a faulty sort that puts an element before its equals
InsertBeforeEquals(sorted, x) ==
    LET k == Cardinality({ i \in 1..Len(sorted) :
                            sorted[i].relevance_score > x.relevance_score })
    IN SubSeq(sorted, 1, k) \o <<x>> \o SubSeq(sorted, k + 1, Len(sorted))

\* x goes behind every element whose score is not lower
InsertByScore(sorted, x) ==
    LET k == Cardinality({ i \in 1..Len(sorted) :
                            sorted[i].relevance_score >= x.relevance_score })
    IN SubSeq(sorted, 1, k) \o <<x>> \o SubSeq(sorted, k + 1, Len(sorted))

\* line 1449: list.sort(key=relevance_score, reverse=True), a stable sort
RECURSIVE SortByScore(_)
SortByScore(seq) ==
    IF seq = <<>> THEN <<>>
    ELSE InsertByScore(SortByScore(SubSeq(seq, 1, Len(seq) - 1)), seq[Len(seq)])

\* a faulty return that keeps the whole list
NoLimit(seq) == seq

\* line 1450: final_results[:20]
Limit(seq) == SubSeq(seq, 1, Min(Len(seq), MaxResults))

\* lines 1333-1450; no statement of the try block raises on a graph the build made
\* lines 1441-1450
Finish(res) ==
    [emitted |-> res,
     results |-> Limit(SortByScore(Deduplicate(<<>>, res)))]

graph_query(g, ents) ==
    Finish(Traverse(g, MarketContext(g, [results |-> <<>>, seen_nodes |-> {}]),
                    StartNodes(g, ents)).results)

\* a faulty _graph_query that stops at the seeds when max_depth is below 2
GraphQueryToDepth(g, ents, max_depth) ==
    IF max_depth >= 2 THEN graph_query(g, ents)
    ELSE Finish(Traverse(ClearEdgesOnly(g),
                         MarketContext(g, [results |-> <<>>, seen_nodes |-> {}]),
                         StartNodes(g, ents)).results)

\* line 1331: max_depth is a parameter with default 2 that the body never reads
GraphQueryCall(g, ents, max_depth) == graph_query(g, ents)

-----------------------------------------------------------------------------
(* process_query.  The vector store and the language model are upstream     *)
(* services: what they answer is an input of the call.                     *)

AnyTerm(query_lower, terms) == \E term \in terms : Contains(query_lower, term)

\* the value a return statement of classify_query gives
Returns(query_type) == [raised |-> FALSE, query_type |-> query_type]

\* lines 693-718.  Line 704 reads QueryType.SECTOR_ANALISYS, a member the enum
\* of lines 61-69 does not have: the attribute lookup raises AttributeError
Classify(query_lower) ==
    IF AnyTerm(query_lower, {"portfolio", "allocate", "diversify", "invest",
                             "distribution", "budget"})
    THEN Returns("portfolio_advice")
    ELSE IF AnyTerm(query_lower, {"stock", "share", "company", "analyze"})
    THEN Returns("stock_analysis")
    ELSE IF AnyTerm(query_lower, {"market", "nifty", "sensex", "index"})
    THEN Returns("market_overview")
    ELSE IF AnyTerm(query_lower, {"sector", "industry", "banking", "it", "pharma"})
    THEN [raised |-> TRUE, query_type |-> "none"]
    ELSE IF AnyTerm(query_lower, {"technical", "chart", "pattern", "indicator"})
    THEN Returns("technical_analysis")
    ELSE IF AnyTerm(query_lower, {"fundamental", "earning", "valuation", "pe"})
    THEN Returns("fundamental_analysis")
    ELSE IF AnyTerm(query_lower, {"news", "sentiment", "announcement"})
    THEN Returns("news_sentiment")
    ELSE IF AnyTerm(query_lower, {"risk", "volatility", "var", "beta"})
    THEN Returns("risk_assessment")
    ELSE Returns("stock_analysis")

\* lines 687-718
classify_query(query) == Classify(Lower(query))

\* lines 832-878.  A hit returns the cached JSON (a list of dicts); a miss asks
\* the vector store and caches a non-empty answer.  An empty cached list is
\* falsy at line 844 and counts as a miss.
retrieve_context(cache_key, store, vector_store) ==
    IF cache_key \in store
    THEN [raised |-> FALSE, relevant_docs |-> "dicts", cache |-> store]
    ELSE IF vector_store = "error"
    THEN [raised |-> TRUE, relevant_docs |-> "none", cache |-> store]
    ELSE IF vector_store = "documents"
    THEN [raised |-> FALSE, relevant_docs |-> "documents",
          cache |-> store \cup {cache_key}]
    ELSE [raised |-> FALSE, relevant_docs |-> "empty", cache |-> store]

\* lines 1079-1095 and 1122-1125: _create_prompt reads doc.page_content of every
\* document, which a dict does not have; llm.invoke is not guarded
generate_response(relevant_docs, llm) ==
    [raised |-> relevant_docs = "dicts" \/ llm = "error"]

\* what process_query leaves when an exception ends it
Fails(ents, store) ==
    [raised |-> TRUE, entities |-> ents, emitted |-> <<>>, results |-> <<>>,
     cache |-> store]

\* lines 1318-1330: the response is generated and the answer object returned
Answer(ents, graph_results, retrieved, llm) ==
    IF generate_response(retrieved.relevant_docs, llm).raised
    THEN Fails(ents, retrieved.cache)
    ELSE [raised |-> FALSE, entities |-> ents, emitted |-> graph_results.emitted,
          results |-> graph_results.results, cache |-> retrieved.cache]

\* lines 1226-1316: the documents are retrieved; the advisor engine call of
\* lines 1234-1267 is guarded by its own try/except, the score helpers by theirs
Retrieve(ents, graph_results, retrieved, store, llm) ==
    IF retrieved.raised THEN Fails(ents, store)
    ELSE Answer(ents, graph_results, retrieved, llm)

\* lines 1220-1222
Query(ents, g, cache_key, store, upstream) ==
    Retrieve(ents, graph_query(g, ents),
             retrieve_context(cache_key, store, upstream.vector_store),
             store, upstream.llm)

\* lines 1218-1219
Extract(extracted, g, cache_key, store, upstream) ==
    IF extracted.raised
    THEN Fails([companies |-> <<>>, sectors |-> <<>>], store)
    ELSE Query([companies |-> extracted.companies, sectors |-> extracted.sectors],
               g, cache_key, store, upstream)

\* lines 1217-1218
Classified(classified, query, g, fd, store, upstream) ==
    IF classified.raised
    THEN Fails([companies |-> <<>>, sectors |-> <<>>], store)
    ELSE Extract(extract_entities(query, g, fd), g,
                 <<query, classified.query_type>>, store, upstream)

\* lines 1211-1330
process_query(query, g, fd, store, upstream) ==
    Classified(classify_query(query), query, g, fd, store, upstream)

-----------------------------------------------------------------------------
(* The system.                                                             *)

NoEntities == [companies |-> <<>>, sectors |-> <<>>]

\* __init__: Redis answers the ping of line 133 or not (lines 124-138); load
\* the files, create the graph, build it (lines 167-172)
Started(dir, redis_answers) ==
    \E fd \in {LoadFileData(dir)} :
    \E built \in {BuildKnowledgeGraph(EmptyGraph, fd)} :
       /\ realtime_dir = dir
       /\ file_data = fd
       /\ knowledge_graph = built.g
       /\ build_error = built.error
       /\ raised = built.raised
       /\ last_refresh = "none"
       /\ call = "none"
       /\ entities = NoEntities
       /\ emitted = <<>>
       /\ results = <<>>
       /\ cache = {}
       /\ args = <<>>
       /\ returned = <<>>
       /\ now = 0
       /\ cache_mtime = <<>>
       /\ redis = {}
       /\ enable_redis = redis_answers
       /\ running = "none"
       /\ refresh_pc = "idle"
       /\ request_pc = "idle"
       /\ observed = <<>>

\* a system started without a Redis server
Constructed(dir) == Started(dir, FALSE)

\* a fresh install: data/realtime is empty
Init == Constructed(EmptyDir)

\* the entities of a snapshot: tickers, news titles, breadth and indicator files
SnapshotKeys(fd) ==
    { fd.stocks[i].ticker : i \in 1..Len(fd.stocks) }
    \cup { NewsId(fd.news_data[i].title) : i \in 1..Len(fd.news_data) }
    \cup (IF Truthy(fd.market_breadth) THEN {"market_breadth"} ELSE {})
    \cup (IF fd.technical_indicators # <<>> THEN {"technical_indicators"} ELSE {})

\* refresh_task of main.py (lines 843-860): the ingestion writes the feed, then
\* refresh_knowledge_graph (lines 182-206) reloads it and rebuilds in place
Refresh(dir) ==
    /\ call = "none"
    /\ \E fd \in {LoadFileData(dir)} :
       \E built \in {BuildKnowledgeGraph(knowledge_graph, fd)} :
       /\ realtime_dir' = dir
       /\ file_data' = fd
       /\ knowledge_graph' = built.g
       /\ build_error' = built.error
       /\ raised' = built.raised
       /\ last_refresh' = IF fd = file_data THEN "unchanged"
                          ELSE IF SnapshotKeys(file_data) \ SnapshotKeys(fd) # {}
                          THEN "removed" ELSE "changed"
       /\ UNCHANGED <<call, entities, emitted, results, cache>>
       /\ UNCHANGED <<args, returned, clock_vars, server_vars>>

Next ==
    \E dir \in Ingest(realtime_dir) : Refresh(dir)

Spec == Init /\ [][Next]_vars

\* every state the feed directory can be in at construction
FeedStates ==
    { [csv_rows |-> c, json_stocks |-> J, breadth |-> b, indicators |-> t,
       news_rows |-> N] :
        c \in {0, CsvRows, IndexRows},
        J \in { K \in SUBSET (1..Len(JsonStockPool)) : Cardinality(K) <= MaxJsonStocks },
        b \in {EmptyDict, BreadthFile},
        t \in IndicatorFiles,
        N \in { K \in SUBSET (1..Len(NewsRowPool)) : Cardinality(K) <= MaxNews } }

InitQuery == \E dir \in FeedStates : Constructed(dir)

\* the entities arguments of _graph_query
CompanyLists ==
    { <<>>, <<"RELIANCE.NS">>, <<"ONGC.NS">>, <<"RELIANCE.NS", "ONGC.NS">>,
      <<"GAIL.NS">>, <<"C01.NS">>, <<"TCS.NS">> }

SectorLists == { <<>>, <<"Energy">>, <<"", "ongc">> }

\* the max_depth arguments: below and above the default of 2
Depths == {1, 3}

QueryEntities == { [companies |-> c, sectors |-> s] : c \in CompanyLists, s \in SectorLists }

\* process_query, line 1222: a call of _graph_query on the current graph
GraphQuery(ents, max_depth) ==
    /\ call = "none"
    /\ \E got \in {GraphQueryCall(knowledge_graph, ents, max_depth)} :
       /\ call' = "_graph_query"
       /\ entities' = ents
       /\ args' = [max_depth |-> max_depth]
       /\ emitted' = got.emitted
       /\ results' = got.results
       /\ raised' = FALSE
       /\ UNCHANGED <<realtime_dir, file_data, knowledge_graph, build_error,
                      last_refresh, cache>>
       /\ UNCHANGED <<returned, clock_vars, server_vars>>

\* the caller is done with what the call gave it
Return ==
    /\ call # "none"
    /\ call' = "none"
    /\ entities' = NoEntities
    /\ emitted' = <<>>
    /\ results' = <<>>
    /\ raised' = FALSE
    /\ args' = <<>>
    /\ returned' = <<>>
    /\ UNCHANGED <<realtime_dir, file_data, knowledge_graph, build_error,
                   last_refresh, cache>>
    /\ UNCHANGED <<clock_vars, server_vars>>

NextQuery ==
    \/ \E ents \in QueryEntities, max_depth \in Depths : GraphQuery(ents, max_depth)
    \/ Return

SpecQuery == InitQuery /\ [][NextQuery]_vars

\* the feeds of the advisory runs
AdvisoryFeeds ==
    { EmptyDir,
      [EmptyDir EXCEPT !.json_stocks = {2, 3}, !.breadth = BreadthFile,
                       !.news_rows = {1}],
      [EmptyDir EXCEPT !.json_stocks = {3, 4}, !.breadth = BreadthFile],
      [EmptyDir EXCEPT !.json_stocks = {3, 6}] }

InitAdvisory == \E dir \in AdvisoryFeeds : Constructed(dir)

QueryTexts ==
    { "analyze Reliance", "banking sector outlook", "Energy news", "nifty today",
      "Tata Consultancy outlook" }

Upstreams ==
    { [vector_store |-> v, llm |-> l] :
        v \in {"documents", "empty", "error"}, l \in {"ok", "error"} }

\* one call of process_query, start to finish
ProcessQuery(query, upstream) ==
    /\ call = "none"
    /\ \E got \in {process_query(query, knowledge_graph, file_data, cache, upstream)} :
       /\ call' = "process_query"
       /\ raised' = got.raised
       /\ entities' = got.entities
       /\ emitted' = got.emitted
       /\ results' = got.results
       /\ cache' = got.cache
       /\ args' = [query |-> query, upstream |-> upstream]
       /\ cache_mtime' = [k \in got.cache |->
                            IF k \in cache THEN cache_mtime[k] ELSE now]
       /\ UNCHANGED <<realtime_dir, file_data, knowledge_graph, build_error,
                      last_refresh>>
       /\ UNCHANGED <<returned, now, redis, enable_redis, server_vars>>

NextAdvisory ==
    \/ \E query \in QueryTexts, upstream \in Upstreams : ProcessQuery(query, upstream)
    \/ Return

SpecAdvisory == InitAdvisory /\ [][NextAdvisory]_vars

-----------------------------------------------------------------------------
(* classify_query and extract_entities called on their own.                *)

\* lines 61-69: the values of the QueryType enum
QueryTypes ==
    { "stock_analysis", "portfolio_advice", "market_overview", "sector_analysis",
      "technical_analysis", "fundamental_analysis", "news_sentiment",
      "risk_assessment" }

\* the feeds of the text runs
TextFeeds ==
    { EmptyDir,
      [EmptyDir EXCEPT !.csv_rows = CsvRows],
      [EmptyDir EXCEPT !.json_stocks = {3}],
      [EmptyDir EXCEPT !.json_stocks = {3, 4}, !.news_rows = {1}],
      [EmptyDir EXCEPT !.json_stocks = {2, 3}, !.breadth = BreadthFile],
      [EmptyDir EXCEPT !.json_stocks = {3, 6}] }

InitText == \E dir \in TextFeeds : Constructed(dir)

\* the last text is longer than the recognizer accepts
Texts ==
    { "", "hello", "banking sector outlook", "pharma industry", "invest in IT",
      "analyze Reliance", "Tata Consultancy outlook", "nifty today",
      "chart pattern", "valuation", "Energy news", "volatility", "RELIANCE rsi",
      "Tata shares", "Rel outlook", "ONGC and Rel growth",
      "what should a cautious saver do when prices move a lot this quarter" }

\* a call of classify_query (lines 687-718)
ClassifyQuery(query) ==
    /\ call = "none"
    /\ \E got \in {classify_query(query)} :
       /\ call' = "classify_query"
       /\ args' = [query |-> query]
       /\ returned' = got
       /\ raised' = got.raised
    /\ UNCHANGED <<realtime_dir, file_data, knowledge_graph, build_error,
                   last_refresh, entities, emitted, results, cache>>
    /\ UNCHANGED <<clock_vars, server_vars>>

\* a call of extract_entities (lines 720-830)
ExtractEntities(query) ==
    /\ call = "none"
    /\ \E got \in {extract_entities(query, knowledge_graph, file_data)} :
       /\ call' = "extract_entities"
       /\ args' = [query |-> query]
       /\ returned' = got
       /\ raised' = got.raised
    /\ UNCHANGED <<realtime_dir, file_data, knowledge_graph, build_error,
                   last_refresh, entities, emitted, results, cache>>
    /\ UNCHANGED <<clock_vars, server_vars>>

NextText ==
    \/ \E query \in Texts : ClassifyQuery(query)
    \/ \E query \in Texts : ExtractEntities(query)
    \/ Return

SpecText == InitText /\ [][NextText]_vars

-----------------------------------------------------------------------------
(* The scores of process_query: _calculate_aggregate_sentiment and         *)
(* _calculate_confidence_score.  A sentiment is kept as a fraction         *)
(* num/den, its terms in halves and its weights in tenths; a confidence is *)
(* kept in units of 1/ConfidenceUnits.                                     *)

\* result['data']: the attribute dict of the node (lines 1358, 1374)
ResultData(g, result) == NodeAttrs(g, result.node)

\* lines 1020-1031, in halves
ConvertSentiment(sentiment) ==
    IF ~IsStr(sentiment) \/ sentiment[2] = "" THEN 0
    ELSE LET key == Lower(sentiment[2])
         IN IF key = "very_positive" THEN 2
            ELSE IF key = "positive" THEN 1
            ELSE IF key = "negative" THEN -1
            ELSE IF key = "very_negative" THEN -2
            ELSE 0

\* lines 1000 and 1006, in halves
RsiSentiment(rsi) == IF rsi > 70 THEN -2 ELSE IF rsi < 30 THEN 2 ELSE 0

MacdSentiment(macd) == IF macd > 0 THEN 2 ELSE IF macd < 0 THEN -2 ELSE 0

\* lines 995-1008: float() of a value that is no number raises
TechnicalTerms(data) ==
    IF data.rsi # Absent /\ ~IsNum(data.rsi) THEN [raised |-> TRUE, terms |-> <<>>]
    ELSE IF data.macd # Absent /\ ~IsNum(data.macd)
    THEN [raised |-> TRUE, terms |-> <<>>]
    ELSE [raised |-> FALSE,
          terms |->
            (IF data.rsi = Absent THEN <<>>
             ELSE << [s |-> RsiSentiment(data.rsi[2]), w |-> 5] >>)
            \o (IF data.macd = Absent THEN <<>>
                ELSE << [s |-> MacdSentiment(data.macd[2]), w |-> 5] >>)]

\* lines 980-1008: what one result appends to sentiments and weights
SentimentTerms(type, data) ==
    IF type = "news"
    THEN [raised |-> FALSE,
          terms |-> << [s |-> ConvertSentiment(Get(data, "sentiment", Str("neutral"))),
                        w |-> 7] >>]
    ELSE IF type = "market_context"
    THEN [raised |-> FALSE,
          terms |-> << [s |-> ConvertSentiment(Get(data, "sentiment", Str("neutral"))),
                        w |-> 10] >>]
    ELSE IF type = "stock_info" THEN TechnicalTerms(data)
    ELSE [raised |-> FALSE, terms |-> <<>>]

\* lines 979-1008: for result in graph_results
RECURSIVE CollectSentiments(_, _, _)
CollectSentiments(acc, g, graph_results) ==
    IF acc.raised \/ graph_results = <<>> THEN acc
    ELSE CollectSentiments(
            [raised |-> SentimentTerms(Head(graph_results).type,
                                       ResultData(g, Head(graph_results))).raised,
             terms |-> acc.terms \o
                       SentimentTerms(Head(graph_results).type,
                                      ResultData(g, Head(graph_results))).terms],
            g, Tail(graph_results))

RECURSIVE WeightedSum(_)
WeightedSum(terms) ==
    IF terms = <<>> THEN 0 ELSE Head(terms).s * Head(terms).w + WeightedSum(Tail(terms))

RECURSIVE SumOfWeights(_)
SumOfWeights(terms) ==
    IF terms = <<>> THEN 0 ELSE Head(terms).w + SumOfWeights(Tail(terms))

\* lines 1010-1018: the weighted average, 0.0 without terms or after an exception
WeightedAverage(collected) ==
    IF collected.raised \/ collected.terms = <<>> THEN [num |-> 0, den |-> 1]
    ELSE [num |-> WeightedSum(collected.terms),
          den |-> 2 * SumOfWeights(collected.terms)]

\* lines 970-1018
calculate_aggregate_sentiment(g, graph_results) ==
    WeightedAverage(CollectSentiments([raised |-> FALSE, terms |-> <<>>], g,
                                      graph_results))

\* 1.0 of a confidence
ConfidenceUnits == 1200

\* datetime.fromisoformat on the timestamps of the feed, in hours since
\* 2025-01-01T00:00:00; every other string raises ValueError
IsoHours == "2025-01-01T10:00:00" :> 10

\* lines 1057-1064: the freshness of one result in 24ths, <<>> when the node
\* has no timestamp or the timestamp does not parse
Freshness(data, current_time) ==
    IF data.timestamp = Absent \/ ~IsStr(data.timestamp) THEN <<>>
    ELSE IF data.timestamp[2] \notin DOMAIN IsoHours THEN <<>>
    ELSE LET age_hours == current_time - IsoHours[data.timestamp[2]]
         IN << IF 24 - age_hours > 0 THEN 24 - age_hours ELSE 0 >>

RECURSIVE Timestamps(_, _, _)
Timestamps(g, graph_results, current_time) ==
    IF graph_results = <<>> THEN <<>>
    ELSE Freshness(ResultData(g, Head(graph_results)), current_time)
         \o Timestamps(g, Tail(graph_results), current_time)

RECURSIVE SumSeq(_)
SumSeq(seq) == IF seq = <<>> THEN 0 ELSE Head(seq) + SumSeq(Tail(seq))

\* lines 1042-1044: min(len / 5, 1.0) * 0.4
CoverageFactor(graph_results) ==
    IF graph_results = <<>> THEN <<>>
    ELSE << (Min(Len(graph_results), 5) * 4 * ConfidenceUnits) \div 50 >>

\* lines 1047-1051: doc.metadata is a dict, so getattr(doc.metadata, 'score',
\* 0.5) is 0.5 for every document and the average is 0.5
RelevanceFactor(vector_results) ==
    IF vector_results = "empty" THEN <<>>
    ELSE << (5 * 3 * ConfidenceUnits) \div 100 >>

\* lines 1066-1068: the mean freshness times 0.3
FreshnessFactor(timestamps) ==
    IF timestamps = <<>> THEN <<>>
    ELSE << (SumSeq(timestamps) * 3 * ConfidenceUnits) \div (24 * 10 * Len(timestamps)) >>

\* lines 1071-1073
SumFactors(factors) ==
    IF factors = <<>> THEN ConfidenceUnits \div 2 ELSE SumSeq(factors)

\* lines 1033-1077: a cached document is a dict and has no attribute metadata;
\* the AttributeError is caught at line 1075
calculate_confidence_score(g, graph_results, vector_results, current_time) ==
    IF vector_results = "dicts" THEN ConfidenceUnits \div 2
    ELSE SumFactors(CoverageFactor(graph_results)
                    \o RelevanceFactor(vector_results)
                    \o FreshnessFactor(Timestamps(g, graph_results, current_time)))

\* the feeds of the score runs
ScoreFeeds ==
    { [csv_rows |-> c, json_stocks |-> J, breadth |-> b, indicators |-> t,
       news_rows |-> N] :
        c \in {0, CsvRows},
        J \in {{}, {3}, {2, 3}},
        b \in {EmptyDict, BreadthFile},
        t \in IndicatorFiles,
        N \in {{}, {1}} }

InitScores == \E dir \in ScoreFeeds : Constructed(dir)

\* datetime.now() at line 1054, in hours since 2025-01-01T00:00:00
Clocks == {-14, 4, 10, 16, 34, 40}

\* what retrieve_context handed to the scores
RelevantDocs == {"documents", "empty", "dicts"}

ScoreEntities ==
    { [companies |-> c, sectors |-> s] :
        c \in {<<>>, <<"RELIANCE.NS">>, <<"ONGC.NS">>},
        s \in {<<>>, <<"Energy">>} }

\* process_query, lines 1222 and 1300-1301: the graph is queried and the two
\* scores are computed from what it returned
CalculateScores(ents, relevant_docs, current_time) ==
    /\ call = "none"
    /\ \E got \in {graph_query(knowledge_graph, ents)} :
       /\ call' = "calculate_scores"
       /\ args' = [relevant_docs |-> relevant_docs, current_time |-> current_time]
       /\ entities' = ents
       /\ emitted' = got.emitted
       /\ results' = got.results
       /\ returned' =
            [sentiment_score |->
                calculate_aggregate_sentiment(knowledge_graph, got.results),
             confidence_score |->
                calculate_confidence_score(knowledge_graph, got.results,
                                           relevant_docs, current_time)]
       /\ raised' = FALSE
    /\ UNCHANGED <<realtime_dir, file_data, knowledge_graph, build_error,
                   last_refresh, cache>>
    /\ UNCHANGED <<clock_vars, server_vars>>

NextScores ==
    \/ \E ents \in ScoreEntities, relevant_docs \in RelevantDocs,
          current_time \in Clocks :
            CalculateScores(ents, relevant_docs, current_time)
    \/ Return

SpecScores == InitScores /\ [][NextScores]_vars

-----------------------------------------------------------------------------
(* LocalInvestmentAdvisorEngine (src/investment_advisor_engine.py).  The    *)
(* engine is linked when the RAG system was given it (it then reads the    *)
(* graph and file_data); the server of main.py constructs it unlinked and  *)
(* it reads the files of data/realtime.  Returns and scores are kept in    *)
(* units of 1/ReturnUnits.  The records of the feed carry no valuation     *)
(* field (pe_ratio, pb_ratio, dividend_yield, market_cap, beta, 52-week    *)
(* range), so these read as absent from a file and as None from a node.    *)

\* 1.0 of a return or of a recommendation score
ReturnUnits == 10000

\* the record self.rag_system.file_data['stocks'].get(symbol)
FileRecord(stocks, symbol) ==
    SelectSeq(stocks, LAMBDA rec : rec.ticker = symbol)

\* lines 170-225.  The graph first; then file_data; then stock_<symbol>.json;
\* the look-up in stocks.csv reads a column 'symbol' the file does not have,
\* and the KeyError is caught at line 222.
get_stock_data(linked, g, fd, dir, symbol) ==
    IF linked /\ has_node(g, symbol) /\ NodeType(g, symbol) = "stock"
    THEN [found |-> TRUE, source |-> "graph", is_dict |-> TRUE,
          current_price |-> Get(NodeAttrs(g, symbol), "price", Num(0))]
    ELSE IF linked /\ FileRecord(fd.stocks, symbol) # <<>>
    THEN [found |-> TRUE, source |-> "file",
          is_dict |-> FileRecord(fd.stocks, symbol)[1].data.is_dict,
          current_price |-> FileRecord(fd.stocks, symbol)[1].data.current_price]
    ELSE IF FileRecord(Pick(JsonStockPool, dir.json_stocks), symbol) # <<>>
    THEN [found |-> TRUE, source |-> "file",
          is_dict |->
            FileRecord(Pick(JsonStockPool, dir.json_stocks), symbol)[1].data.is_dict,
          current_price |->
            FileRecord(Pick(JsonStockPool, dir.json_stocks), symbol)[1].data.current_price]
    ELSE [found |-> FALSE, source |-> "none", is_dict |-> TRUE,
          current_price |-> Absent]

\* the entry of technical_indicators.json for the symbol
IndicatorEntry(entries, symbol) ==
    SelectSeq(entries, LAMBDA e : e.ticker = symbol)

\* lines 227-256: from the node the values that are not None; else the entry
\* of technical_indicators.json
get_technical_indicators(linked, g, fd, dir, symbol) ==
    IF linked /\ has_node(g, symbol) /\ NodeType(g, symbol) = "stock"
    THEN [rsi |-> IF IsNum(NodeAttrs(g, symbol).rsi)
                  THEN NodeAttrs(g, symbol).rsi ELSE Absent,
          macd |-> IF IsNum(NodeAttrs(g, symbol).macd)
                   THEN NodeAttrs(g, symbol).macd ELSE Absent,
          sma_20 |-> Absent, sma_50 |-> Absent]
    ELSE IF IndicatorEntry(IF linked THEN fd.technical_indicators
                           ELSE dir.indicators, symbol) # <<>>
    THEN [rsi |-> IndicatorEntry(IF linked THEN fd.technical_indicators
                                 ELSE dir.indicators, symbol)[1].indicators.rsi,
          macd |-> IndicatorEntry(IF linked THEN fd.technical_indicators
                                  ELSE dir.indicators, symbol)[1].indicators.macd,
          sma_20 |-> Absent, sma_50 |-> Absent]
    ELSE [rsi |-> Absent, macd |-> Absent, sma_20 |-> Absent, sma_50 |-> Absent]

\* lines 408-415
RsiSignal(indicators) ==
    IF indicators.rsi = Absent THEN 0
    ELSE IF indicators.rsi[2] < 30 THEN 1
    ELSE IF indicators.rsi[2] > 70 THEN -1 ELSE 0

\* lines 418-425: indicators.get('macd', {}); only a dict gives a MACD signal,
\* and the default is one with no histogram
MacdSignals(indicators) ==
    IF indicators.macd = Absent THEN <<0>>
    ELSE IF indicators.macd[1] # "dict" THEN <<>>
    ELSE IF indicators.macd[2] = Absent THEN <<0>>
    ELSE << IF indicators.macd[2][2] > 0 THEN 1
            ELSE IF indicators.macd[2][2] < 0 THEN -1 ELSE 0 >>

\* lines 428-436: the moving averages, 0 when absent
SmaSignal(indicators) ==
    IF Get(indicators, "sma_20", Num(0))[2] > Get(indicators, "sma_50", Num(0))[2]
       /\ Get(indicators, "sma_20", Num(0))[2] > 0
    THEN 1
    ELSE IF Get(indicators, "sma_20", Num(0))[2]
                < Get(indicators, "sma_50", Num(0))[2]
            /\ Get(indicators, "sma_20", Num(0))[2] > 0
    THEN -1
    ELSE 0

\* lines 405-436: the signals of RSI, MACD and the moving averages
Signals(indicators) ==
    <<RsiSignal(indicators)>> \o MacdSignals(indicators)
        \o <<SmaSignal(indicators)>>

\* lines 439-446: buy above a mean of 0.3 and sell below -0.3, with the
\* strength |mean| as the fraction num/den; else neutral with strength 0.5
Aggregate(signals) ==
    IF 10 * SumSeq(signals) > 3 * Len(signals)
    THEN [signal |-> "buy", num |-> SumSeq(signals), den |-> Len(signals)]
    ELSE IF 10 * SumSeq(signals) < -3 * Len(signals)
    THEN [signal |-> "sell", num |-> -SumSeq(signals), den |-> Len(signals)]
    ELSE [signal |-> "neutral", num |-> 1, den |-> 2]

\* lines 401-446: an empty dict is neutral
analyze_technical(indicators) ==
    IF \A k \in DOMAIN indicators : indicators[k] = Absent
    THEN [signal |-> "neutral", num |-> 1, den |-> 2]
    ELSE Aggregate(Signals(indicators))

\* lines 448-483, in hundredths: the baseline 0.5 and 0.05 for the default
\* beta of 1.0
analyze_fundamentals(stock_data) == 50 + 5

\* lines 485-527: the mean score of the news nodes next to the stock, in
\* units of 1/ReturnUnits
RECURSIVE NewsScores(_, _)
NewsScores(g, nbrs) ==
    IF nbrs = <<>> THEN <<>>
    ELSE (IF NodeType(g, Head(nbrs)) = "news"
          THEN << ConvertSentiment(Get(NodeAttrs(g, Head(nbrs)), "sentiment",
                                       Str("neutral"))) >>
          ELSE <<>>)
         \o NewsScores(g, Tail(nbrs))

get_sentiment_score(linked, g, symbol) ==
    IF ~linked \/ ~has_node(g, symbol) THEN 0
    ELSE IF NewsScores(g, neighbors(g, symbol)) = <<>> THEN 0
    ELSE (SumSeq(NewsScores(g, neighbors(g, symbol))) * (ReturnUnits \div 2))
            \div Len(NewsScores(g, neighbors(g, symbol)))

\* lines 529-562: the expected monthly return.  Without a price the
\* prediction is 0; from a node the 52-week range reads None, float(None)
\* raises in _calculate_momentum and the except clause returns 0
PredictedReturn(stock_data, indicators) ==
    (ReturnUnits \div 100)
    + ((analyze_fundamentals(stock_data) - 50) * 3 * ReturnUnits) \div 10000
    + (IF indicators.rsi = Absent THEN 0
       ELSE ((50 - indicators.rsi[2]) * ReturnUnits) \div 10000)

\* the predicted price, in 1/ReturnUnits of the currency unit
predict_price(stock_data, indicators) ==
    IF ~stock_data.is_dict THEN 0
    ELSE IF stock_data.current_price = Absent THEN 0
    ELSE IF ~IsNum(stock_data.current_price) THEN 0
    ELSE IF stock_data.current_price[2] = 0 THEN 0
    ELSE IF stock_data.source = "graph" THEN 0
    ELSE stock_data.current_price[2]
            * (ReturnUnits + PredictedReturn(stock_data, indicators))

\* lines 353-356
CurrentPrice(stock_data) ==
    IF stock_data.current_price = Absent THEN 0 ELSE stock_data.current_price[2]

ExpectedReturn(stock_data, indicators) ==
    IF CurrentPrice(stock_data) > 0
    THEN (predict_price(stock_data, indicators)
            - CurrentPrice(stock_data) * ReturnUnits) \div CurrentPrice(stock_data)
    ELSE 0

\* lines 592-603
RecommendationScore(expected_return, signal, fundamental_score, sentiment_score) ==
    3 * expected_return
    + (IF signal = "buy" THEN 1 ELSE IF signal = "sell" THEN -1 ELSE 0)
        * (ReturnUnits \div 4)
    + ((fundamental_score - 50) * 2 * (ReturnUnits \div 4)) \div 100
    + sentiment_score \div 5

\* lines 605-615
generate_recommendation(score) ==
    IF 10 * score > 5 * ReturnUnits THEN "strong_buy"
    ELSE IF 10 * score > 2 * ReturnUnits THEN "buy"
    ELSE IF 10 * score < -5 * ReturnUnits THEN "strong_sell"
    ELSE IF 10 * score < -2 * ReturnUnits THEN "sell"
    ELSE "hold"

\* lines 336-339 and 396-399: a result without recommendation fields
NoRecommendation ==
    [success |-> FALSE, action |-> "none", current_price |-> Absent,
     target_price |-> Absent]

\* lines 341-392
Recommend(stock_data, indicators, sentiment_score) ==
    [success |-> TRUE,
     action |-> generate_recommendation(
                    RecommendationScore(ExpectedReturn(stock_data, indicators),
                                        analyze_technical(indicators).signal,
                                        analyze_fundamentals(stock_data),
                                        sentiment_score)),
     current_price |-> Num(CurrentPrice(stock_data)),
     target_price |-> Num(predict_price(stock_data, indicators))]

\* lines 330-399.  A record that is no dict has no get (line 453), and
\* float(None) raises at line 353: both end in the except clause of line 394
Analysis(stock_data, indicators, sentiment_score) ==
    IF ~stock_data.found THEN NoRecommendation
    ELSE IF ~stock_data.is_dict THEN NoRecommendation
    ELSE IF stock_data.current_price # Absent /\ ~IsNum(stock_data.current_price)
    THEN NoRecommendation
    ELSE Recommend(stock_data, indicators, sentiment_score)

analyze_stock(linked, g, fd, dir, symbol) ==
    Analysis(get_stock_data(linked, g, fd, dir, symbol),
             get_technical_indicators(linked, g, fd, dir, symbol),
             get_sentiment_score(linked, g, symbol))

\* InvestmentStrategy, lines 32-39
Strategies ==
    {"conservative", "moderate", "aggressive", "growth", "value", "income",
     "balanced"}

\* strategy_params[strategy]['min_return'], lines 92-121, in 1/ReturnUnits
MinReturn ==
    "conservative" :> 800 @@ "moderate" :> 1000 @@ "aggressive" :> 1200 @@
    "growth" :> 1500 @@ "value" :> 1100 @@ "income" :> 900 @@ "balanced" :> 1000

\* lines 806-810
base_universe ==
    <<"RELIANCE.NS", "TCS.NS", "HDFCBANK.NS", "INFY.NS", "ICICIBANK.NS",
      "KOTAKBANK.NS", "LT.NS", "SBIN.NS", "BHARTIARTL.NS", "ITC.NS",
      "AXISBANK.NS", "BAJFINANCE.NS", "HCLTECH.NS", "MARUTI.NS", "SUNPHARMA.NS">>

\* lines 816-824
StrategyStocks(strategy) ==
    IF strategy = "growth" THEN <<"ADANIENT.NS", "ADANIGREEN.NS">>
    ELSE IF strategy = "value"
    THEN <<"COALINDIA.NS", "NTPC.NS", "ONGC.NS", "POWERGRID.NS">>
    ELSE IF strategy = "income"
    THEN <<"HINDUNILVR.NS", "NESTLEIND.NS", "BRITANNIA.NS">>
    ELSE <<>>

\* lines 783-803: the stock nodes of a graph that is not empty; else the
\* keys of file_data; an unlinked engine reads the column 'symbol' of
\* stocks.csv (a KeyError, caught) and then the first 20 stock files
AvailableStocks(linked, g, fd, dir) ==
    IF linked /\ Len(g.nodes) > 0 THEN StockNodes(g)
    ELSE IF linked THEN Tickers(fd.stocks)
    ELSE SubSeq(Tickers(Pick(JsonStockPool, dir.json_stocks)), 1,
                Min(20, Cardinality(dir.json_stocks)))

\* lines 813-824
Universe(available_stocks, strategy) ==
    SelectSeq(base_universe, LAMBDA s : InSeq(s, available_stocks))
    \o SelectSeq(StrategyStocks(strategy),
                 LAMBDA s : InSeq(s, available_stocks) /\ ~InSeq(s, base_universe))

\* line 826
FirstFifteen(seq) == SubSeq(seq, 1, Min(15, Len(seq)))

\* lines 778-829
get_stock_universe(linked, g, fd, dir, strategy) ==
    IF Universe(AvailableStocks(linked, g, fd, dir), strategy) # <<>>
    THEN FirstFifteen(Universe(AvailableStocks(linked, g, fd, dir), strategy))
    ELSE FirstFifteen(AvailableStocks(linked, g, fd, dir))

\* lines 841-853: the expected return of one stock of the universe; on a
\* record that is no dict stock_data.get raises at line 846
StockReturn(stock_data, indicators) ==
    IF ~stock_data.found THEN [raised |-> FALSE, value |-> 0]
    ELSE IF ~stock_data.is_dict THEN [raised |-> TRUE, value |-> 0]
    ELSE IF stock_data.current_price # Absent /\ ~IsNum(stock_data.current_price)
    THEN [raised |-> TRUE, value |-> 0]
    ELSE [raised |-> FALSE, value |-> ExpectedReturn(stock_data, indicators)]

RECURSIVE get_returns(_, _, _, _, _)
get_returns(linked, g, fd, dir, stock_universe) ==
    IF stock_universe = <<>> THEN <<>>
    ELSE << StockReturn(get_stock_data(linked, g, fd, dir, Head(stock_universe)),
                        get_technical_indicators(linked, g, fd, dir,
                                                 Head(stock_universe))) >>
         \o get_returns(linked, g, fd, dir, Tail(stock_universe))

RECURSIVE MaxReturn(_)
MaxReturn(returns) ==
    IF Len(returns) = 1 THEN returns[1].value
    ELSE IF returns[1].value > MaxReturn(Tail(returns)) THEN returns[1].value
    ELSE MaxReturn(Tail(returns))

\* lines 915-920: weights that sum to 1, none above 0.3, exist from four
\* assets on, and their return is at most the largest return
Feasible(returns, min_return) ==
    /\ 3 * Len(returns) >= 10
    /\ MaxReturn(returns) >= min_return

\* np.ones(n_assets) / n_assets, lines 931 and 937: weight num/den each
EqualWeights(n_assets) == [num |-> [i \in 1..n_assets |-> 1], den |-> n_assets]

\* lines 890-937.  An infeasible problem does not end with status OPTIMAL and
\* the equal weights are returned.  A feasible one returns a point of the
\* constraint set: 0.3 on three assets and 0.1 on a fourth.
optimize_allocation(returns, min_return) ==
    IF Feasible(returns, min_return)
    THEN [num |-> [i \in 1..Len(returns) |->
                        IF i <= 3 THEN 3 ELSE IF i = 4 THEN 1 ELSE 0],
          den |-> 10]
    ELSE EqualWeights(Len(returns))

\* lines 745-748: the stocks whose weight is above 0.01
Allocation(stock_universe, weights) ==
    { i \in 1..Len(stock_universe) : 100 * weights.num[i] > weights.den }

\* lines 714-776.  The universe, the returns (an exception of line 846
\* escapes), ValueError on an empty universe, the weights and the allocation.
Portfolio(stock_universe, returns, min_return) ==
    IF \E i \in 1..Len(returns) : returns[i].raised
    THEN [raised |-> TRUE, stock_universe |-> stock_universe,
          weights |-> EqualWeights(0), stocks |-> {}]
    ELSE IF Len(returns) = 0
    THEN [raised |-> TRUE, stock_universe |-> stock_universe,
          weights |-> EqualWeights(0), stocks |-> {}]
    ELSE [raised |-> FALSE, stock_universe |-> stock_universe,
          weights |-> optimize_allocation(returns, min_return),
          stocks |-> Allocation(stock_universe,
                                optimize_allocation(returns, min_return))]

optimize_portfolio(linked, g, fd, dir, strategy) ==
    Portfolio(get_stock_universe(linked, g, fd, dir, strategy),
              get_returns(linked, g, fd, dir,
                          get_stock_universe(linked, g, fd, dir, strategy)),
              MinReturn[strategy])

\* dict.get(symbol, 0) of a portfolio: weights in hundredths
WeightOf(portfolio, symbol) ==
    IF symbol \in DOMAIN portfolio THEN portfolio[symbol] ELSE 0

Abs(x) == IF x < 0 THEN -x ELSE x

\* lines 992-1008: False without an existing portfolio; else whether a stock
\* of the target allocation differs from its current weight by more than 0.05
check_rebalancing_needed(existing_portfolio, target_allocation) ==
    IF DOMAIN existing_portfolio = {} THEN FALSE
    ELSE \E symbol \in DOMAIN target_allocation :
            Abs(target_allocation[symbol]
                - WeightOf(existing_portfolio, symbol)) > 5

\* the feeds the engine is called on: up to MaxJsonStocks stock files, with
\* or without stocks.csv, technical_indicators.json and a news row
AdvisorFeeds ==
    { [EmptyDir EXCEPT !.csv_rows = c, !.json_stocks = J, !.indicators = t,
                       !.news_rows = N] :
        c \in {0, CsvRows},
        J \in { K \in SUBSET (1..Len(JsonStockPool)) :
                  Cardinality(K) <= MaxJsonStocks },
        t \in IndicatorFiles,
        N \in {{}, {1}} }

InitAdvisor == \E dir \in AdvisorFeeds : Constructed(dir)

\* a stock node, a stock of stocks.csv, stocks of the files, a sector node
\* and a symbol the feed never held
Symbols ==
    {"RELIANCE.NS", "TCS.NS", "GAIL.NS", "BAD.NS", "C01.NS", "Energy",
     "UNKNOWN.NS"}

\* a call of analyze_stock (lines 330-399) on an engine the RAG system was
\* given (linked) or on the one main.py constructs
AnalyzeStock(symbol, linked) ==
    /\ call = "none"
    /\ \E got \in {analyze_stock(linked, knowledge_graph, file_data,
                                   realtime_dir, symbol)} :
       /\ call' = "analyze_stock"
       /\ args' = [symbol |-> symbol, linked |-> linked]
       /\ returned' = got
       /\ raised' = FALSE
    /\ UNCHANGED <<realtime_dir, file_data, knowledge_graph, build_error,
                   last_refresh, entities, emitted, results, cache>>
    /\ UNCHANGED <<clock_vars, server_vars>>

\* a call of optimize_portfolio (lines 714-776) for a new portfolio
OptimizePortfolio(strategy, linked) ==
    /\ call = "none"
    /\ \E got \in {optimize_portfolio(linked, knowledge_graph, file_data,
                                        realtime_dir, strategy)} :
       /\ call' = "optimize_portfolio"
       /\ args' = [strategy |-> strategy, linked |-> linked]
       /\ returned' = got
       /\ raised' = got.raised
    /\ UNCHANGED <<realtime_dir, file_data, knowledge_graph, build_error,
                   last_refresh, entities, emitted, results, cache>>
    /\ UNCHANGED <<clock_vars, server_vars>>

\* the portfolios of the rebalancing check: weights of 0.10 or 0.40 on some
\* of the symbols; the empty one stands for None and for {}
Portfolios(symbols) == UNION { [S -> {10, 40}] : S \in SUBSET symbols }

\* a call of _check_rebalancing_needed (lines 992-1008)
CheckRebalancing(existing_portfolio, target_allocation) ==
    /\ call = "none"
    /\ call' = "check_rebalancing_needed"
    /\ args' = [existing_portfolio |-> existing_portfolio,
                target_allocation |-> target_allocation]
    /\ returned' = [rebalancing_needed |->
                        check_rebalancing_needed(existing_portfolio,
                                                 target_allocation)]
    /\ raised' = FALSE
    /\ UNCHANGED <<realtime_dir, file_data, knowledge_graph, build_error,
                   last_refresh, entities, emitted, results, cache>>
    /\ UNCHANGED <<clock_vars, server_vars>>

NextAdvisor ==
    \/ \E symbol \in Symbols, linked \in BOOLEAN : AnalyzeStock(symbol, linked)
    \/ \E strategy \in Strategies, linked \in BOOLEAN :
            OptimizePortfolio(strategy, linked)
    \/ Return

SpecAdvisor == InitAdvisor /\ [][NextAdvisor]_vars

\* the indicator sets of the technical analysis: as _get_technical_indicators
\* returns them from the graph (the MACD histogram as a number) or from
\* technical_indicators.json (MACD as a dict, or null)
IndicatorSets ==
    [rsi : {Absent, Num(25), Num(50), Num(75)},
     macd : {Absent, None, Num(1), Num(-1), Dict(Num(1)), Dict(Num(-1)),
             Dict(Absent)},
     sma_20 : {Absent, Num(0), Num(90), Num(110)},
     sma_50 : {Absent, Num(100)}]

\* a call of _analyze_technical (lines 401-446)
AnalyzeTechnical(indicators) ==
    /\ call = "none"
    /\ call' = "analyze_technical"
    /\ args' = [indicators |-> indicators]
    /\ returned' = analyze_technical(indicators)
    /\ raised' = FALSE
    /\ UNCHANGED <<realtime_dir, file_data, knowledge_graph, build_error,
                   last_refresh, entities, emitted, results, cache>>
    /\ UNCHANGED <<clock_vars, server_vars>>

\* the helpers of the engine that read neither the graph nor the feed
NextHelpers ==
    \/ \E indicators \in IndicatorSets : AnalyzeTechnical(indicators)
    \/ \E existing_portfolio \in Portfolios({"RELIANCE.NS", "TCS.NS", "ITC.NS"}),
          target_allocation \in Portfolios({"RELIANCE.NS", "TCS.NS"}) :
            CheckRebalancing(existing_portfolio, target_allocation)
    \/ Return

SpecHelpers == Init /\ [][NextHelpers]_vars

-----------------------------------------------------------------------------
(* The retrieval cache over time (lines 476-515 and 832-878).  A Redis     *)
(* entry is a key with the time it expires; a cache file is a key of cache *)
(* with its modification time.                                             *)

\* the expiry retrieve_context passes to _set_cache, in seconds
CacheExpiry == 300
\* the seconds between two moments the model looks at
TimeStep == 100
\* the last moment the model looks at
MaxTime == 600

\* redis.get(key): the entry that has not expired
RedisGet(entries, key, t) == { e \in entries : e.key = key /\ e.expires > t }

\* lines 476-495: Redis when it is enabled, answers and holds the key; else
\* the cache file, whenever it exists
get_cache(key, use_redis, entries, files, mtime, t) ==
    IF use_redis /\ RedisGet(entries, key, t) # {}
    THEN [source |-> "redis",
          written |-> (CHOOSE e \in RedisGet(entries, key, t) : TRUE).expires
                        - CacheExpiry]
    ELSE IF key \in files THEN [source |-> "file", written |-> mtime[key]]
    ELSE [source |-> "search", written |-> t]

\* redis.setex(key, expiry, value): the key is set anew
RedisSetex(entries, key, expiry, t) ==
    { e \in entries : e.key # key } \cup {[key |-> key, expires |-> t + expiry]}

\* lines 497-515: Redis first, and the file only when Redis is disabled or
\* the setex raised
set_cache(key, expiry, use_redis, entries, files, mtime, t) ==
    IF use_redis
    THEN [redis |-> RedisSetex(entries, key, expiry, t), cache |-> files,
          cache_mtime |-> mtime]
    ELSE [redis |-> entries, cache |-> files \cup {key},
          cache_mtime |-> [k \in files \cup {key} |->
                              IF k = key THEN t ELSE mtime[k]]]

\* lines 876, 502 and 482: what a list of Document objects reads back as
\* after [doc.dict() for doc in ...], json.dumps and json.loads: a list of
\* dicts with the keys page_content and metadata
Cached(relevant_docs) ==
    IF relevant_docs = "documents" THEN "dicts" ELSE relevant_docs

\* lines 832-878: a cached list that is not empty is returned; else the
\* similarity search runs (its exception escapes) and the result is cached
\* for CacheExpiry seconds.  An empty list is cached too and reads as a miss.
retrieve_context_at(key, vector_store, use_redis, entries, files, mtime, t) ==
    IF get_cache(key, use_redis, entries, files, mtime, t).source # "search"
    THEN [raised |-> FALSE, relevant_docs |-> Cached("documents"),
          source |-> get_cache(key, use_redis, entries, files, mtime, t).source,
          written |-> get_cache(key, use_redis, entries, files, mtime, t).written,
          redis |-> entries, cache |-> files, cache_mtime |-> mtime]
    ELSE IF vector_store = "error"
    THEN [raised |-> TRUE, relevant_docs |-> "none",
          source |-> "search", written |-> t,
          redis |-> entries, cache |-> files, cache_mtime |-> mtime]
    ELSE IF vector_store = "empty"
    THEN [raised |-> FALSE, relevant_docs |-> "empty",
          source |-> "search", written |-> t,
          redis |-> entries, cache |-> files, cache_mtime |-> mtime]
    ELSE [raised |-> FALSE, relevant_docs |-> "documents",
          source |-> "search", written |-> t,
          redis |-> set_cache(key, CacheExpiry, use_redis, entries, files,
                              mtime, t).redis,
          cache |-> set_cache(key, CacheExpiry, use_redis, entries, files,
                              mtime, t).cache,
          cache_mtime |-> set_cache(key, CacheExpiry, use_redis, entries, files,
                                    mtime, t).cache_mtime]

\* the system is started with or without a Redis server that answers
InitCache ==
    \E redis_answers \in BOOLEAN :
        Started([EmptyDir EXCEPT !.json_stocks = {3}], redis_answers)

\* (query_text, query_type) of the calls
CacheKeys ==
    { <<"analyze Reliance", "stock_analysis">>, <<"nifty today", "market_overview">> }

\* time passes
Tick ==
    /\ call = "none"
    /\ now + TimeStep <= MaxTime
    /\ now' = now + TimeStep
    /\ UNCHANGED <<core_vars, args, returned, cache_mtime, redis, enable_redis,
                   server_vars>>

\* a call of retrieve_context (lines 832-878); redis_up: the Redis server
\* answers during the call
RetrieveContext(key, vector_store, redis_up) ==
    /\ call = "none"
    /\ \E got \in {retrieve_context_at(key, vector_store, enable_redis /\ redis_up,
                                         redis, cache, cache_mtime, now)} :
       /\ call' = "retrieve_context"
       /\ args' = [key |-> key, vector_store |-> vector_store]
       /\ returned' = [source |-> got.source, written |-> got.written,
                        relevant_docs |-> got.relevant_docs]
       /\ raised' = got.raised
       /\ redis' = got.redis
       /\ cache' = got.cache
       /\ cache_mtime' = got.cache_mtime
    /\ UNCHANGED <<realtime_dir, file_data, knowledge_graph, build_error,
                   last_refresh, entities, emitted, results>>
    /\ UNCHANGED <<now, enable_redis, server_vars>>

NextCache ==
    \/ Tick
    \/ \E key \in CacheKeys, vector_store \in {"documents", "empty", "error"},
          redis_up \in BOOLEAN : RetrieveContext(key, vector_store, redis_up)
    \/ Return

SpecCache == InitCache /\ [][NextCache]_vars

-----------------------------------------------------------------------------
(* The server of src/main.py: every endpoint and the refresh task are      *)
(* coroutines of one event loop.  The loop runs one coroutine until it     *)
(* suspends at an await or ends; running names the coroutine that holds    *)
(* the loop.  The steps of a coroutine between two awaits are separate     *)
(* actions, so that what keeps them together is the loop and nothing else. *)

\* a scheduler that may switch coroutines after every step
EveryStep ==
    {"fetching", "load", "clear", "stocks", "breadth", "indicators", "news",
     "peers", "extract", "graph_query", "retrieve", "respond"}

\* the steps a coroutine is suspended before: await fetch_bulk_realtime
\* (main.py line 847), await retrieve_context (line 1227) and await
\* generate_response (line 1319); refresh_knowledge_graph is called without
\* await (main.py line 857) and contains none
AwaitPoints == {"fetching", "retrieve", "respond"}

\* who holds the loop once the coroutine task stands before the step pc
Holder(task, pc) ==
    IF pc = "idle" \/ pc \in AwaitPoints THEN "none" ELSE task

\* the loop can run a step of the coroutine task
CanRun(task) == running \in {"none", task}

\* the feeds of the server runs
ServerFeeds ==
    { EmptyDir,
      [EmptyDir EXCEPT !.json_stocks = {2, 3}, !.breadth = BreadthFile,
                       !.news_rows = {1}],
      [EmptyDir EXCEPT !.json_stocks = {3, 4}],
      [EmptyDir EXCEPT !.json_stocks = {3, 6}, !.breadth = BreadthFile] }

\* startup_event (main.py lines 142-177)
InitServer == \E dir \in ServerFeeds : Constructed(dir)

\* POST /api/v1/admin/refresh-data (main.py lines 839-871): the task is
\* scheduled and runs up to its first await
StartRefresh ==
    /\ refresh_pc = "idle"
    /\ running = "none"
    /\ refresh_pc' = "fetching"
    /\ running' = Holder("refresh", "fetching")
    /\ UNCHANGED <<core_vars, args, returned, clock_vars, request_pc, observed>>

\* main.py lines 847-852: the fetch has written the feed and the task is
\* resumed; the indicators are updated
FetchDone(dir) ==
    /\ refresh_pc = "fetching"
    /\ CanRun("refresh")
    /\ realtime_dir' = dir
    /\ refresh_pc' = "load"
    /\ running' = Holder("refresh", "load")
    /\ UNCHANGED <<file_data, knowledge_graph, build_error, raised, last_refresh,
                   call, entities, emitted, results, cache>>
    /\ UNCHANGED <<args, returned, clock_vars, request_pc, observed>>

\* refresh_knowledge_graph, line 190: _load_file_data
LoadStep ==
    /\ refresh_pc = "load"
    /\ CanRun("refresh")
    /\ \E fd \in {LoadFileData(realtime_dir)} :
       /\ file_data' = fd
       /\ last_refresh' = IF fd = file_data THEN "unchanged"
                          ELSE IF SnapshotKeys(file_data) \ SnapshotKeys(fd) # {}
                          THEN "removed" ELSE "changed"
    /\ refresh_pc' = "clear"
    /\ running' = Holder("refresh", "clear")
    /\ UNCHANGED <<realtime_dir, knowledge_graph, build_error, raised, call,
                   entities, emitted, results, cache>>
    /\ UNCHANGED <<args, returned, clock_vars, request_pc, observed>>

\* the step of _build_knowledge_graph that follows
NextBuildStep ==
    "clear" :> "stocks" @@ "stocks" :> "breadth" @@ "breadth" :> "indicators" @@
    "indicators" :> "news" @@ "news" :> "peers"

\* one step of _build_knowledge_graph (lines 298-389) on the graph in place
BuildStepOf(pc, st, fd) ==
    IF pc = "clear" THEN [g |-> IndexStep(Clear(st.g)), raised |-> FALSE]
    ELSE IF pc = "stocks" THEN StockSteps(st, fd.stocks)
    ELSE IF pc = "breadth" THEN BreadthStep(st, fd.market_breadth)
    ELSE IF pc = "indicators" THEN IndicatorSteps(st, fd.technical_indicators)
    ELSE NewsSteps(st, fd.news_data, fd)

BuildStep ==
    /\ refresh_pc \in DOMAIN NextBuildStep
    /\ CanRun("refresh")
    /\ \E st \in {BuildStepOf(refresh_pc, [g |-> knowledge_graph,
                                             raised |-> build_error], file_data)} :
       /\ knowledge_graph' = st.g
       /\ build_error' = st.raised
    /\ refresh_pc' = NextBuildStep[refresh_pc]
    /\ running' = Holder("refresh", NextBuildStep[refresh_pc])
    /\ UNCHANGED <<realtime_dir, file_data, raised, last_refresh, call, entities,
                   emitted, results, cache>>
    /\ UNCHANGED <<args, returned, clock_vars, request_pc, observed>>

\* lines 390-411: the peer pass and the except clause; the task ends
FinishBuild ==
    /\ refresh_pc = "peers"
    /\ CanRun("refresh")
    /\ \E st \in {ExceptClause(PeerStep([g |-> knowledge_graph,
                                          raised |-> build_error]))} :
       /\ knowledge_graph' = st.g
       /\ build_error' = st.error
    /\ refresh_pc' = "idle"
    /\ running' = Holder("refresh", "idle")
    /\ UNCHANGED <<realtime_dir, file_data, raised, last_refresh, call, entities,
                   emitted, results, cache>>
    /\ UNCHANGED <<args, returned, clock_vars, request_pc, observed>>

\* what a call made for the request saw: the graph and the snapshot
Observation(name) ==
    [call |-> name, graph |-> knowledge_graph, snapshot |-> file_data]

\* POST /api/v1/query (main.py lines 408-454): process_query starts and
\* classifies the text (line 1217); an exception ends the request
StartRequest(query) ==
    /\ request_pc = "idle"
    /\ running = "none"
    /\ \E classified \in {classify_query(query)} :
       /\ args' = [query |-> query, query_type |-> classified.query_type]
       /\ raised' = classified.raised
       /\ request_pc' = IF classified.raised THEN "idle" ELSE "extract"
       /\ running' = Holder("request",
                            IF classified.raised THEN "idle" ELSE "extract")
    /\ observed' = <<>>
    /\ entities' = NoEntities
    /\ emitted' = <<>>
    /\ results' = <<>>
    /\ returned' = <<>>
    /\ UNCHANGED <<realtime_dir, file_data, knowledge_graph, build_error,
                   last_refresh, call, cache>>
    /\ UNCHANGED <<clock_vars, refresh_pc>>

\* line 1218: extract_entities
ExtractStep ==
    /\ request_pc = "extract"
    /\ CanRun("request")
    /\ \E got \in {extract_entities(args.query, knowledge_graph, file_data)} :
       /\ entities' = IF got.raised THEN NoEntities
                       ELSE [companies |-> got.companies, sectors |-> got.sectors]
       /\ raised' = got.raised
       /\ request_pc' = IF got.raised THEN "idle" ELSE "graph_query"
       /\ running' = Holder("request",
                            IF got.raised THEN "idle" ELSE "graph_query")
    /\ observed' = Append(observed, Observation("extract_entities"))
    /\ UNCHANGED <<realtime_dir, file_data, knowledge_graph, build_error,
                   last_refresh, call, emitted, results, cache>>
    /\ UNCHANGED <<args, returned, clock_vars, refresh_pc>>

\* a faulty _graph_query that removes the edges it has walked
GraphQueryDropsEdges ==
    /\ request_pc = "graph_query"
    /\ CanRun("request")
    /\ \E got \in {graph_query(knowledge_graph, entities)} :
       /\ emitted' = got.emitted
       /\ results' = got.results
    /\ knowledge_graph' = ClearEdgesOnly(knowledge_graph)
    /\ observed' = Append(observed, Observation("_graph_query"))
    /\ request_pc' = "retrieve"
    /\ running' = Holder("request", "retrieve")
    /\ UNCHANGED <<realtime_dir, file_data, build_error, raised,
                   last_refresh, call, entities, cache>>
    /\ UNCHANGED <<args, returned, clock_vars, refresh_pc>>

\* line 1222: _graph_query
GraphQueryStep ==
    /\ request_pc = "graph_query"
    /\ CanRun("request")
    /\ \E got \in {graph_query(knowledge_graph, entities)} :
       /\ emitted' = got.emitted
       /\ results' = got.results
    /\ observed' = Append(observed, Observation("_graph_query"))
    /\ request_pc' = "retrieve"
    /\ running' = Holder("request", "retrieve")
    /\ UNCHANGED <<realtime_dir, file_data, knowledge_graph, build_error, raised,
                   last_refresh, call, entities, cache>>
    /\ UNCHANGED <<args, returned, clock_vars, refresh_pc>>

\* line 1227: retrieve_context
RetrieveStep(vector_store) ==
    /\ request_pc = "retrieve"
    /\ CanRun("request")
    /\ \E got \in {retrieve_context(<<args.query, args.query_type>>, cache,
                                      vector_store)} :
       /\ cache' = got.cache
       /\ cache_mtime' = [k \in got.cache |->
                            IF k \in cache THEN cache_mtime[k] ELSE now]
       /\ returned' = [relevant_docs |-> got.relevant_docs]
       /\ raised' = got.raised
       /\ request_pc' = IF got.raised THEN "idle" ELSE "respond"
       /\ running' = Holder("request", IF got.raised THEN "idle" ELSE "respond")
    /\ UNCHANGED <<realtime_dir, file_data, knowledge_graph, build_error,
                   last_refresh, call, entities, emitted, results>>
    /\ UNCHANGED <<args, now, redis, enable_redis, refresh_pc, observed>>

\* lines 1319-1330: generate_response and the answer
RespondStep(llm) ==
    /\ request_pc = "respond"
    /\ CanRun("request")
    /\ raised' = generate_response(returned.relevant_docs, llm).raised
    /\ request_pc' = "idle"
    /\ running' = Holder("request", "idle")
    /\ UNCHANGED <<realtime_dir, file_data, knowledge_graph, build_error,
                   last_refresh, call, entities, emitted, results, cache>>
    /\ UNCHANGED <<args, returned, clock_vars, refresh_pc, observed>>

\* the texts of the requests
RequestTexts == {"analyze Reliance", "Energy news", "banking sector outlook"}

NextServer ==
    \/ StartRefresh
    \/ \E dir \in ServerFeeds : FetchDone(dir)
    \/ LoadStep
    \/ BuildStep
    \/ FinishBuild
    \/ \E query \in RequestTexts : StartRequest(query)
    \/ ExtractStep
    \/ GraphQueryStep
    \/ \E vector_store \in {"documents", "error"} : RetrieveStep(vector_store)
    \/ \E llm \in {"ok", "error"} : RespondStep(llm)

SpecServer == InitServer /\ [][NextServer]_vars

-----------------------------------------------------------------------------
(* Properties of _graph_query, checked under SpecQuery.                    *)

ResultNodes == { results[i].node : i \in 1..Len(results) }

Returned(node, type, relevance_score) ==
    \E i \in 1..Len(results) :
        results[i] = [node |-> node, type |-> type,
                      relevance_score |-> relevance_score]

\* the position of the first emission of a node
FirstEmission(node) ==
    CHOOSE k \in 1..Len(emitted) :
        /\ emitted[k].node = node
        /\ \A j \in 1..(k - 1) : emitted[j].node # node

\* C1: whenever the graph holds the node market_breadth, a _graph_query call
\* returns it with type market_context and score 0.7, whatever the entities
\* and however many other results score higher.
C1_MarketBreadthReturned ==
    (call = "_graph_query" /\ has_node(knowledge_graph, "market_breadth"))
        => Returned("market_breadth", "market_context", 7)

\* C2: a _graph_query call returns at most 20 results, no two of them with the
\* same node key, and each is the first emission of its node.
C2_AtMostTwentyDistinct ==
    call = "_graph_query" =>
        /\ Len(results) <= 20
        /\ \A i, j \in 1..Len(results) : results[i].node = results[j].node => i = j
        /\ \A i \in 1..Len(results) :
              /\ \E k \in 1..Len(emitted) : emitted[k].node = results[i].node
              /\ results[i] = emitted[FirstEmission(results[i].node)]

\* a call whose traversal emitted more than 20 nodes and returned 20
C2_Truncated ==
    /\ call = "_graph_query"
    /\ Len(emitted) > 20
    /\ Len(results) = 20

\* C3: the returned list is ordered by relevance_score non-increasing, results
\* of equal score keep their emission order, and the results cut off by the
\* limit of 20 are the last of that order.
C3_SortedStable ==
    call = "_graph_query" =>
        /\ \A i, j \in 1..Len(results) :
              i < j =>
                /\ results[i].relevance_score >= results[j].relevance_score
                /\ results[i].relevance_score = results[j].relevance_score
                     => FirstEmission(results[i].node) < FirstEmission(results[j].node)
        /\ \A k \in 1..Len(emitted) :
              emitted[k].node \notin ResultNodes =>
                \A i \in 1..Len(results) :
                   /\ results[i].relevance_score >= emitted[k].relevance_score
                   /\ results[i].relevance_score = emitted[k].relevance_score
                        => FirstEmission(results[i].node) < k

\* a call whose sort moved results, kept ties and was followed by the cut
C3_SortedWithTies ==
    /\ call = "_graph_query"
    /\ Len(emitted) > 20
    /\ emitted[1].node # results[1].node
    /\ results[1].relevance_score > results[Len(results)].relevance_score
    /\ \E i \in 1..(Len(results) - 1) :
          results[i].relevance_score = results[i + 1].relevance_score

\* the sector nodes a stock node is attached to by a belongs_to edge
SectorsOf(g, stock) ==
    { c \in DOMAIN g.attr :
        /\ NodeType(g, c) = "sector"
        /\ has_edge(g, stock, c)
        /\ Relation(g, stock, c) = "belongs_to" }

\* the call's only seed is one stock node
OnlySeedIsStock ==
    /\ call = "_graph_query"
    /\ entities.sectors = <<>>
    /\ Len(entities.companies) = 1
    /\ has_node(knowledge_graph, entities.companies[1])
    /\ NodeType(knowledge_graph, entities.companies[1]) = "stock"

\* C4: when the only seed is a stock S attached to sector C and no more than
\* 20 nodes are emitted, the result holds S at 1.0 (stock_info), C at 0.9
\* (sector_info), every other stock attached to C at 0.6 (peer_stock) and
\* every news node that mentions S at 0.8 (related_news).
C4_StockSeedExpansion ==
    (OnlySeedIsStock /\ Len(emitted) <= 20) =>
        LET g == knowledge_graph
            S == entities.companies[1]
        IN /\ Returned(S, "stock_info", 10)
           /\ \A C \in SectorsOf(g, S) :
                 /\ Returned(C, "sector_info", 9)
                 /\ \A T \in DOMAIN g.attr :
                       (T # S /\ NodeType(g, T) = "stock" /\ has_edge(g, C, T))
                          => Returned(T, "peer_stock", 6)
           /\ \A N \in DOMAIN g.attr :
                 (NodeType(g, N) = "news" /\ has_edge(g, S, N))
                    => Returned(N, "related_news", 8)

\* the seed RELIANCE.NS with its sector, a sibling stock and a news item
C4_RelianceExample ==
    /\ OnlySeedIsStock
    /\ Len(emitted) <= 20
    /\ entities.companies[1] = "RELIANCE.NS"
    /\ Returned("RELIANCE.NS", "stock_info", 10)
    /\ Returned("Energy", "sector_info", 9)
    /\ Returned("ONGC.NS", "peer_stock", 6)
    /\ Returned(NewsId("Reliance profit up"), "related_news", 8)

-----------------------------------------------------------------------------
(* Properties of the build and the refresh, checked under Spec.            *)

StockTypeNodes(g) == { n \in DOMAIN g.attr : NodeType(g, n) = "stock" }

\* C5: after a build, every two distinct stock nodes that are neighbours of
\* the same sector node are joined by a peer_of_sector edge, also when a build
\* step threw an exception.
C5_SectorPeersComplete ==
    LET g == knowledge_graph
    IN \A c \in DOMAIN g.attr :
          NodeType(g, c) = "sector" =>
             \A a, b \in StockTypeNodes(g) :
                (a # b /\ has_edge(g, c, a) /\ has_edge(g, c, b))
                   => (has_edge(g, a, b) /\ Relation(g, a, b) = "peer_of_sector")

\* C6: after a build, every node of type stock has at most one incident edge
\* with relation belongs_to.
C6_OneBelongsTo ==
    LET g == knowledge_graph
    IN \A n \in StockTypeNodes(g) :
          Cardinality({ k \in 1..Len(g.adj[n]) :
                           g.adj[n][k].relation = "belongs_to" }) <= 1

\* the records of the snapshot that are dicts
DictRecords(fd) ==
    { fd.stocks[i] : i \in { k \in 1..Len(fd.stocks) : fd.stocks[k].data.is_dict } }

SectorField(rec) == IF IsStr(rec.data.sector) THEN rec.data.sector[2] ELSE "Unknown"

\* the node keys a snapshot can give rise to, with the two index nodes
SnapshotNodes(fd) ==
    {"NIFTY50", "SENSEX"}
    \cup { rec.ticker : rec \in DictRecords(fd) }
    \cup ({ SectorField(rec) : rec \in DictRecords(fd) } \ {"Unknown"})
    \cup (IF Truthy(fd.market_breadth) THEN {"market_breadth"} ELSE {})
    \cup { "news_" \o fd.news_data[i].title : i \in 1..Len(fd.news_data) }

\* the edge derives from the snapshot
SnapshotEdge(fd, e) ==
    \/ /\ e.relation = "belongs_to"
       /\ \E rec \in DictRecords(fd) : e.ends = {rec.ticker, SectorField(rec)}
    \/ /\ e.relation = "component_of"
       /\ \E rec \in DictRecords(fd) : e.ends = {SectorField(rec), "NIFTY50"}
    \/ /\ e.relation = "indicates"
       /\ Truthy(fd.market_breadth)
       /\ e.ends \in { {"market_breadth", "NIFTY50"}, {"market_breadth", "SENSEX"} }
    \/ /\ e.relation = "mentions"
       /\ \E i \in 1..Len(fd.news_data) :
             /\ ("news_" \o fd.news_data[i].title) \in e.ends
             /\ \E n \in SnapshotNodes(fd) :
                   e.ends = {"news_" \o fd.news_data[i].title, n}
    \/ /\ e.relation = "peer_of_sector"
       /\ \E r1, r2 \in DictRecords(fd) :
             /\ r1.ticker # r2.ticker
             /\ SectorField(r1) = SectorField(r2)
             /\ e.ends = {r1.ticker, r2.ticker}

\* C7: after any sequence of rebuilds, failed ones included, every node and
\* every edge of the graph derives from the snapshot of the most recent
\* rebuild or is one of the two index nodes.
C7_NoStaleData ==
    /\ \A n \in DOMAIN knowledge_graph.attr : n \in SnapshotNodes(file_data)
    /\ \A i \in 1..Len(knowledge_graph.nodes) :
          knowledge_graph.nodes[i] \in DOMAIN knowledge_graph.attr
    /\ \A e \in Edges(knowledge_graph) : SnapshotEdge(file_data, e)

\* a rebuild that failed part-way over a snapshot an entity had left
C7_FailedRebuildAfterRemoval ==
    /\ last_refresh = "removed"
    /\ build_error
    /\ Len(knowledge_graph.nodes) > 2

\* C8: the graph a rebuild leaves is the graph a build of the same snapshot
\* makes on an empty graph: same node keys, attributes, edges and relations.
C8_DeterministicRebuild ==
    knowledge_graph = BuildKnowledgeGraph(EmptyGraph, file_data).g

\* a refresh over an unchanged snapshot that holds stocks, peers and news
C8_RebuiltUnchanged ==
    /\ last_refresh = "unchanged"
    /\ \E e \in Edges(knowledge_graph) : e.relation = "peer_of_sector"
    /\ \E e \in Edges(knowledge_graph) : e.relation = "mentions"

\* C9: neither the build nor the refresh raises to the caller; after a failed
\* build the graph still holds the index nodes and every stock record read
\* before the failure.
C9_BuildNeverRaises ==
    call = "none" =>
        /\ ~raised
        /\ has_node(knowledge_graph, "NIFTY50")
        /\ has_node(knowledge_graph, "SENSEX")
        /\ \A i \in 1..Len(file_data.stocks) :
              (\A j \in 1..i : file_data.stocks[j].data.is_dict)
                 => /\ has_node(knowledge_graph, file_data.stocks[i].ticker)
                    /\ NodeType(knowledge_graph, file_data.stocks[i].ticker) = "stock"

\* a refresh whose build failed after the stock RELIANCE.NS was added
C9_FailedBuildKeptGraph ==
    /\ last_refresh # "none"
    /\ build_error
    /\ ~raised
    /\ has_node(knowledge_graph, "RELIANCE.NS")

-----------------------------------------------------------------------------
(* A property of process_query, checked under SpecAdvisory.                *)

\* C10: process_query returns an answer object for every query text and every
\* state of the graph and of the retrieval cache; no exception escapes it.
C10_AlwaysAnswers ==
    call = "process_query" => ~raised

-----------------------------------------------------------------------------
(* Properties of classify_query and extract_entities, checked under        *)
(* SpecText.                                                               *)

\* C11: classify_query never raises and returns one of the eight QueryType
\* values for every text; a text of the sector group gives sector_analysis.
C11_ClassifiesEveryText ==
    call = "classify_query" =>
        /\ ~raised
        /\ returned.query_type \in QueryTypes
        /\ (args.query \in {"banking sector outlook", "pharma industry"}
                => returned.query_type = "sector_analysis")

\* C12: extract_entities does not raise; on the empty string, and whenever no
\* entity of the graph or of file_data matches, the three lists are empty.
C12_ExtractNeverRaises ==
    call = "extract_entities" =>
        /\ ~raised
        /\ (args.query \in {"", "hello"} =>
                /\ returned.companies = <<>>
                /\ returned.sectors = <<>>
                /\ returned.metrics = <<>>)

-----------------------------------------------------------------------------
(* Properties of the scores, checked under SpecScores.                     *)

\* C13: the confidence score lies in [0,1] for every list of graph results and
\* documents, also when a result carries a timestamp later than the current time.
C13_ConfidenceInUnitInterval ==
    call = "calculate_scores" =>
        /\ returned.confidence_score >= 0
        /\ returned.confidence_score <= ConfidenceUnits

\* the terms of the weighted mean as the sentiment rule states them: a result
\* whose node is a news node counts as news, whatever type the traversal gave it
RECURSIVE StatedTerms(_, _)
StatedTerms(g, graph_results) ==
    IF graph_results = <<>> THEN <<>>
    ELSE (IF NodeType(g, Head(graph_results).node) = "news"
          THEN SentimentTerms("news", ResultData(g, Head(graph_results))).terms
          ELSE SentimentTerms(Head(graph_results).type,
                              ResultData(g, Head(graph_results))).terms)
         \o StatedTerms(g, Tail(graph_results))

StatedSentiment ==
    WeightedAverage([raised |-> FALSE, terms |-> StatedTerms(knowledge_graph, results)])

\* C20: the aggregate sentiment is the weighted mean of the sentiment of every
\* returned news result (0.7), of the market context (1.0) and of the RSI and
\* MACD signals of every stock_info result (0.5 each); 0.0 without any term.
C20_SentimentIsWeightedMean ==
    call = "calculate_scores" =>
        returned.sentiment_score.num * StatedSentiment.den
            = StatedSentiment.num * returned.sentiment_score.den

\* C14: optimize_portfolio returns weights that sum to 1 and lie each between
\* 0 and 0.30, for every strategy and every non-empty universe, the
\* equal-weight fallback included.
C14_WeightsWithinLimits ==
    (call = "optimize_portfolio" /\ ~raised) =>
        /\ SumSeq(returned.weights.num) = returned.weights.den
        /\ \A i \in DOMAIN returned.weights.num :
              /\ returned.weights.num[i] >= 0
              /\ 10 * returned.weights.num[i] <= 3 * returned.weights.den

\* C15: analyze_stock never raises, and for a symbol that is absent or lacks
\* a needed field such as the current price it returns success false with no
\* action and no target price.
C15_NoRecommendationWithoutPrice ==
    call = "analyze_stock" =>
        /\ ~raised
        /\ (\/ ~get_stock_data(args.linked, knowledge_graph, file_data,
                                realtime_dir, args.symbol).found
            \/ CurrentPrice(get_stock_data(args.linked, knowledge_graph, file_data,
                                           realtime_dir, args.symbol)) = 0)
              => (~returned.success /\ returned.action = "none")

\* C18: when one build step throws, the later steps still run: after a build
\* a market breadth file the snapshot holds has its node, whatever happened
\* while the stock records were processed.
C18_LaterStepsStillRun ==
    call = "none" =>
        (Truthy(file_data.market_breadth)
            => has_node(knowledge_graph, "market_breadth"))

\* C19: in process_query a failure of the document retriever or of the
\* response generator is caught and treated as an empty contribution: on a
\* query that classify_query and extract_entities accept, asked with an empty
\* cache, no exception escapes.
C19_UpstreamFailureContained ==
    (/\ call = "process_query"
     /\ cache = {}
     /\ ~classify_query(args.query).raised
     /\ ~extract_entities(args.query, knowledge_graph, file_data).raised
     /\ (args.upstream.vector_store = "error" \/ args.upstream.llm = "error"))
        => ~raised

\* C16: a retrieval result served from the cache was written at most
\* CacheExpiry seconds before, whether Redis or a file holds it; after that
\* the identical query runs the similarity search again.
C16_CacheServedWithinTtl ==
    (call = "retrieve_context" /\ returned.source # "search") =>
        now - returned.written <= CacheExpiry

-----------------------------------------------------------------------------
(* A property of the server, checked under SpecServer.                     *)

\* C17: the rebuild is serialized against the queries of the server: every
\* extract_entities and _graph_query call made for a request sees the
\* complete graph of the snapshot loaded last, never a graph between the
\* clear and the end of a rebuild, and the calls of one request see the same
\* graph.
C17_QueriesSeeCompleteGraph ==
    \A i \in DOMAIN observed :
        /\ observed[i].graph = BuildKnowledgeGraph(EmptyGraph, observed[i].snapshot).g
        /\ observed[i].graph = observed[1].graph

\* a request made both calls while the refresh task, which had rebuilt the
\* graph from a changed feed once, was waiting for the next fetch
C17_QueryWhileRefreshPending ==
    /\ Len(observed) = 2
    /\ observed[2].call = "_graph_query"
    /\ refresh_pc = "fetching"
    /\ last_refresh = "changed"

-----------------------------------------------------------------------------
(* Further properties of the build, checked under Spec.                    *)

\* C21: a stock node stores only the attributes present in its record: a
\* record without a current price leaves the node without a price attribute.
C21_MissingPriceOmitted ==
    call = "none" =>
        \A rec \in DictRecords(file_data) :
            (/\ rec.data.current_price = Absent
             /\ has_node(knowledge_graph, rec.ticker)
             /\ NodeType(knowledge_graph, rec.ticker) = "stock")
                => NodeAttrs(knowledge_graph, rec.ticker).price = Absent

-----------------------------------------------------------------------------
(* Further properties of extract_entities, checked under SpecText.         *)

\* the rule as stated: the ticker without its exchange suffix occurs in the
\* text, or two significant words of the name do
TickerOrTwoWords(g, node, query) ==
    \/ Contains(Upper(query), Upper(TickerClean(node)))
    \/ Cardinality((Words(StockNameLower(NodeAttrs(g, node).name)) \ common_words)
                   \cap (Words(Lower(query)) \ common_words)) >= 2

\* C22: the direct scan of extract_entities returns a stock node exactly when
\* its ticker occurs in the text or at least 2 significant words of its name
\* do; one shared word without the ticker does not match.
C22_DirectScanTickerOrTwoWords ==
    (call = "extract_entities" /\ ~raised) =>
        \A n \in DOMAIN knowledge_graph.attr :
            NodeType(knowledge_graph, n) = "stock" =>
                (InSeq(n, DirectCompanies(knowledge_graph, Lower(args.query),
                                          Upper(args.query)))
                    <=> TickerOrTwoWords(knowledge_graph, n, args.query))

-----------------------------------------------------------------------------
(* Further properties of the advisor engine, checked under SpecAdvisor.    *)

\* C23: rebalancing_needed is true exactly when the weight of some holding,
\* of the existing portfolio or of the target allocation, differs from its
\* target weight (0 when absent from the target) by more than 0.05; without
\* an existing portfolio it is false.
C23_RebalancingOnAnyDrift ==
    call = "check_rebalancing_needed" =>
        (returned.rebalancing_needed
            <=> /\ DOMAIN args.existing_portfolio # {}
                /\ \E symbol \in DOMAIN args.existing_portfolio
                                  \cup DOMAIN args.target_allocation :
                      Abs(WeightOf(args.target_allocation, symbol)
                          - WeightOf(args.existing_portfolio, symbol)) > 5)

\* C24: with RSI below 30 and a positive MACD histogram the technical
\* analysis returns buy with a strength above 0.3, whether MACD is the number
\* the graph stores or the dict of the file feed, and whatever the moving
\* averages are.
C24_OversoldPositiveMacdIsBuy ==
    (/\ call = "analyze_technical"
     /\ args.indicators.rsi \in {Num(25)}
     /\ args.indicators.macd \in {Num(1), Dict(Num(1))})
        => /\ returned.signal = "buy"
           /\ 10 * returned.num > 3 * returned.den

\* the build of a snapshot up to the news items (lines 298-366)
BeforeNews(fd) ==
    IndicatorSteps(
        BreadthStep(StockSteps([g |-> IndexStep(EmptyGraph), raised |-> FALSE],
                               fd.stocks),
                    fd.market_breadth),
        fd.technical_indicators)

C26_FirstTierWins ==
    (call = "extract_entities" /\ ~raised) =>
        \E direct \in {DirectCompanies(knowledge_graph, Lower(args.query),
                                       Upper(args.query))} :
        \E ner \in {NerFallback(<<>>, NerModel(args.query), knowledge_graph)} :
            /\ returned.companies =
                    IF direct # <<>> THEN direct
                    ELSE IF ner # <<>> THEN ner
                    ELSE FileFallback(<<>>, file_data, Lower(args.query)).companies
            /\ returned.sectors = SectorEntities(knowledge_graph, Lower(args.query))
            /\ returned.metrics =
                    SelectSeq(metrics, LAMBDA m : Contains(Lower(args.query), m))

\* the direct scan found one company and the recognizer knows another
\* organization of the text; a metric was matched as well
C26_DirectFoundNerSkipped ==
    /\ call = "extract_entities"
    /\ ~raised
    /\ returned.companies = <<"ONGC.NS">>
    /\ NerFallback(<<>>, NerModel(args.query), knowledge_graph) = <<"RELIANCE.NS">>
    /\ returned.metrics = <<"growth">>

-----------------------------------------------------------------------------
(* Properties of the query path, checked under SpecServer and SpecQuery.   *)

\* C27: classify_query, extract_entities and _graph_query only read the
\* graph: whenever no rebuild is under way, whatever calls the requests have
\* made, the nodes, the node attributes and the edges are those the last
\* rebuild left for the snapshot it loaded.
C27_QueriesLeaveGraph ==
    refresh_pc \in {"idle", "fetching"} =>
        knowledge_graph = BuildKnowledgeGraph(EmptyGraph, file_data).g

\* a request has classified its text, extracted its entities and queried a
\* graph with edges that a refresh had rebuilt from a changed feed
C27_QueriedAfterRebuild ==
    /\ request_pc = "retrieve"
    /\ Len(observed) = 2
    /\ results # <<>>
    /\ refresh_pc = "idle"
    /\ last_refresh = "changed"
    /\ Edges(knowledge_graph) # {}

\* the neighbours of a node as a set
Nbrs(g, n) == { g.adj[n][k].to : k \in 1..Len(g.adj[n]) }

\* the nodes reached from a stock seed through one of its sector neighbours
ThroughSector(g, seeds) ==
    UNION { UNION { Nbrs(g, c) : c \in { d \in Nbrs(g, s) : NodeType(g, d) = "sector" } } :
            s \in { t \in seeds : NodeType(g, t) = "stock" } }

\* C28: every returned node other than market_breadth is a seed, a
\* neighbour of a seed, or a neighbour of a sector neighbour of a stock
\* seed, so nothing lies farther than two edges from a seed and the second
\* edge is only walked from a sector of a stock seed; the result is the one
\* of the default max_depth whatever max_depth was passed.
C28_TwoHopsThroughSector ==
    call = "_graph_query" =>
        \E seeds \in {{ StartNodes(knowledge_graph, entities)[i] :
                          i \in DOMAIN StartNodes(knowledge_graph, entities) }} :
            /\ \A i \in DOMAIN results :
                  \/ results[i].node = "market_breadth"
                  \/ results[i].node \in seeds
                  \/ \E s \in seeds : results[i].node \in Nbrs(knowledge_graph, s)
                  \/ results[i].node \in ThroughSector(knowledge_graph, seeds)
            /\ results = GraphQueryCall(knowledge_graph, entities, 2).results

\* a call with a max_depth of 1 returned a node two edges from its only seed
C28_SecondHopAtDepthOne ==
    /\ call = "_graph_query"
    /\ args.max_depth = 1
    /\ Len(entities.companies) = 1
    /\ entities.sectors = <<>>
    /\ \E i \in DOMAIN results :
          /\ results[i].type = "peer_stock"
          /\ ~has_edge(knowledge_graph, entities.companies[1], results[i].node)

\* the sector nodes two stocks are both linked to
SharedSectors(g, a, b) ==
    { c \in Nbrs(g, a) \cap Nbrs(g, b) : NodeType(g, c) = "sector" }

\* the seeds are two different stock nodes with a common sector
SeedPair ==
    /\ call = "_graph_query"
    /\ Len(entities.companies) = 2
    /\ entities.companies[1] # entities.companies[2]
    /\ \A i \in 1..2 : /\ has_node(knowledge_graph, entities.companies[i])
                        /\ NodeType(knowledge_graph, entities.companies[i]) = "stock"
    /\ SharedSectors(knowledge_graph, entities.companies[1], entities.companies[2]) # {}

\* C29: when the seed stocks A and B, in this order, share a sector, B is
\* returned exactly once, as a peer_stock with relevance 0.6; B is never
\* emitted as stock_info and no news that mentions B but not A is returned.
C29_SecondSeedIsPeer ==
    SeedPair =>
        \E b \in {entities.companies[2]} :
            /\ Cardinality({ i \in DOMAIN results : results[i].node = b }) = 1
            /\ \A i \in DOMAIN results : results[i].node = b =>
                  /\ results[i].type = "peer_stock"
                  /\ results[i].relevance_score = PeerStockScore
            /\ \A i \in DOMAIN emitted : emitted[i].node = b =>
                  emitted[i].type = "peer_stock"
            /\ \A n \in Nbrs(knowledge_graph, b) \ Nbrs(knowledge_graph, entities.companies[1]) :
                  NodeType(knowledge_graph, n) = "news" =>
                      \A i \in DOMAIN results : results[i].node # n

\* the seeds RELIANCE.NS and ONGC.NS share a sector, a news item mentions
\* ONGC.NS only, and ONGC.NS was returned as a peer
C29_PeerSeedWithOwnNews ==
    /\ SeedPair
    /\ \E n \in Nbrs(knowledge_graph, entities.companies[2])
                  \ Nbrs(knowledge_graph, entities.companies[1]) :
          NodeType(knowledge_graph, n) = "news"
    /\ \E i \in DOMAIN results : /\ results[i].node = entities.companies[2]
                                  /\ results[i].type = "peer_stock"

\* C29, as the code has it: when the seed stocks A and B, in this order,
\* share a sector, B is emitted exactly once, as a peer_stock with relevance
\* 0.6 during A's expansion, never as stock_info, and no news that mentions B
\* but not A is returned; B is in the returned list at most once, and it is
\* there unless the limit of twenty results has cut it off.
C29_SecondSeedEmittedAsPeer ==
    SeedPair =>
        \E b \in {entities.companies[2]} :
            /\ Cardinality({ i \in DOMAIN emitted : emitted[i].node = b }) = 1
            /\ \A i \in DOMAIN emitted : emitted[i].node = b =>
                  /\ emitted[i].type = "peer_stock"
                  /\ emitted[i].relevance_score = PeerStockScore
            /\ Cardinality({ i \in DOMAIN results : results[i].node = b }) <= 1
            /\ \A i \in DOMAIN results : results[i].node = b =>
                  results[i].type = "peer_stock"
            /\ (\A i \in DOMAIN results : results[i].node # b) =>
                  Len(results) = MaxResults
            /\ \A n \in Nbrs(knowledge_graph, b) \ Nbrs(knowledge_graph, entities.companies[1]) :
                  NodeType(knowledge_graph, n) = "news" =>
                      \A i \in DOMAIN results : results[i].node # n

-----------------------------------------------------------------------------
(* A property of the retrieval cache, checked under SpecCache.             *)

\* C30: a retrieve_context call answered from the cache returns what the
\* miss that wrote the entry returned: the list of Document objects, in the
\* same representation.
C30_HitReturnsDocuments ==
    (call = "retrieve_context" /\ ~raised /\ returned.source # "search") =>
        returned.relevant_docs = "documents"

====
